---- MODULE Spec2Model ----
(***************************************************************************)
(* Missile Command simulation core (CAG07/missile-command).                *)
(*                                                                         *)
(* The state is the Game object of src/src/game.py with the managers it    *)
(* owns: MissileSlotManager (src/src/models/missile.py), ExplosionManager  *)
(* (src/src/models/explosion.py), CityManager (src/src/models/city.py) and *)
(* the defence manager (src/src/models/defense.py), and ScoreDisplay       *)
(* (src/src/ui/text.py).  Every Game method is one action; the managers'   *)
(* public methods that callers and tests use directly on game.missiles,    *)
(* game.explosions, game.cities and game.defences are actions as well.     *)
(* Python integers are unbounded, so no width is modelled.                 *)
(***************************************************************************)
EXTENDS Integers, Sequences, FiniteSets, TLC

\* ------------------------------------------------------------------------
\* Program constants (src/src/config.py)
\* ------------------------------------------------------------------------
MAX_ABM_SLOTS == 8
MAX_ICBM_SLOTS == 8
MAX_EXPLOSION_SLOTS == 20
EXPLOSION_GROUPS == 5
EXPLOSIONS_PER_GROUP == 4
ABM_SPEED_SIDE == 3
ABM_SPEED_CENTER == 7
NUM_SILOS == 3
SILO_CAPACITY == 10
NUM_CITIES_DEFAULT == 6
MAX_CITIES_DESTROYED_PER_WAVE == 3
BONUS_CITY_POINTS == 10000
EXPLOSION_MAX_RADIUS == 13
EXPLOSION_OCTAGON_SLOPE_NUM == 3
EXPLOSION_OCTAGON_SLOPE_DEN == 8
EXPLOSION_COLLISION_ALTITUDE_MIN == 33
FLIER_ALTITUDE == 115
POINTS_PER_ICBM == 25
POINTS_PER_SMART_BOMB == 125
POINTS_PER_FLIER == 100
POINTS_PER_REMAINING_ABM == 5
POINTS_PER_SURVIVING_CITY == 100
MIRV_ALTITUDE_LOW == 128
MIRV_ALTITUDE_HIGH == 159
MIRV_MAX_CHILDREN == 3
MAX_SMART_BOMBS == 2
FIXED_POINT_SHIFT == 8
FIXED_POINT_SCALE == 256
DESTROY_RADIUS == 10
WAVE_BUDGET_BASE == 8
WAVE_BUDGET_CAP == 30

SILO_POSITIONS == <<  <<32, 220>>, <<128, 220>>, <<224, 220>>  >>
CITY_POSITIONS == <<  <<48, 216>>, <<72, 216>>, <<96, 216>>,
                      <<160, 216>>, <<184, 216>>, <<208, 216>>  >>
WAVE_SPEEDS == << 1, 1, 2, 2, 3, 3, 4, 4, 5, 5,
                  6, 6, 7, 7, 8, 8, 8, 8, 8, 8 >>

\* ------------------------------------------------------------------------
\* Bounds of the model
\* ------------------------------------------------------------------------
\* update() is not called on a RUNNING game whose frame_count is MaxFrames.
MaxFrames == 11
\* start_wave() is not called once MaxWaves waves have ended.
MaxWaves == 2
\* At most MaxCalls calls other than update() and start_wave() are made.
\* update() calls on the one explosion of SpecExplosion
MaxSteps == 15
\* update() calls on the ExplosionManager of SpecExplosions
MaxUpdates == 6
\* SpecSiege: ticks of a wave, launches of a wave, explosions stored
MaxSiegeFrames == 1
MaxSiegeSpawns == 4
MaxSiegeExplosions == 1
MaxCalls == 3

\* ------------------------------------------------------------------------
\* Small helpers
\* ------------------------------------------------------------------------
Abs(n) == IF n < 0 THEN -n ELSE n
Min2(a, b) == IF a < b THEN a ELSE b
Max2(a, b) == IF a > b THEN a ELSE b
BoolInt(b) == IF b THEN 1 ELSE 0

RECURSIVE SumUpTo(_, _)
\* sum of f[0] .. f[n-1]
SumUpTo(f, n) == IF n = 0 THEN 0 ELSE f[n - 1] + SumUpTo(f, n - 1)

\* Python's None
None == [kind |-> "None"]

\* ------------------------------------------------------------------------
\* Fixed-point 8.8 math (src/src/models/missile.py)
\* ------------------------------------------------------------------------
\* value << 8
to_fixed(value) == value * FIXED_POINT_SCALE

\* value >> 8: Python's arithmetic shift floors; so does \div
from_fixed(value) == value \div FIXED_POINT_SCALE

\* the octagonal distance without its cap
distance_approx_uncapped(x1, y1, x2, y2) ==
    LET dx0 == Abs(x2 - x1)
        dy0 == Abs(y2 - y1)
        dx == IF dx0 < dy0 THEN dy0 ELSE dx0
        dy == IF dx0 < dy0 THEN dx0 ELSE dy0
    IN  dx + ((3 * dy) \div 8)

\* distance_approx of models/missile.py; (3 * dy) >> 3 is a floor division
distance_approx(x1, y1, x2, y2) ==
    LET dx0 == Abs(x2 - x1)
        dy0 == Abs(y2 - y1)
        dx == IF dx0 < dy0 THEN dy0 ELSE dx0
        dy == IF dx0 < dy0 THEN dx0 ELSE dy0
        dist == dx + ((3 * dy) \div 8)
    IN  Min2(dist, 255)

\* distance_approx of utils/functions.py
functions_distance_approx(x1, y1, x2, y2) ==
    LET dx0 == Abs(x2 - x1)
        dy0 == Abs(y2 - y1)
        dx == IF dx0 < dy0 THEN dy0 ELSE dx0
        dy == IF dx0 < dy0 THEN dx0 ELSE dy0
        dist == dx + ((3 * dy) \div 8)
    IN  Min2(dist, 255)

\* Python's // floors (toward minus infinity), as \div does
compute_increments(sx, sy, tx, ty, speed) ==
    LET dist == distance_approx(sx, sy, tx, ty)
    IN  IF dist = 0 THEN <<0, 0>>
        ELSE << ((tx - sx) * speed * FIXED_POINT_SCALE) \div dist,
                ((ty - sy) * speed * FIXED_POINT_SCALE) \div dist >>

has_passed_target(cx, cy, tx, ty, x_inc, y_inc) ==
    \/ (x_inc > 0 /\ cx >= tx)
    \/ (x_inc < 0 /\ cx <= tx)
    \/ (y_inc > 0 /\ cy >= ty)
    \/ (y_inc < 0 /\ cy <= ty)

\* ------------------------------------------------------------------------
\* Trajectory entities (src/src/models/missile.py)
\* The origin fields (start_x/start_y, entry_x/entry_y) are read only by
\* __post_init__ and are not kept in the records.
\* ------------------------------------------------------------------------
current_x(m) == from_fixed(m.current_x_fp)
current_y(m) == from_fixed(m.current_y_fp)

\* ABM.__init__ / __post_init__
NewABM(silo_index, start_x, start_y, target_x, target_y) ==
    LET speed == IF silo_index = 1 THEN ABM_SPEED_CENTER ELSE ABM_SPEED_SIDE
        inc == compute_increments(start_x, start_y, target_x, target_y, speed)
    IN  [kind |-> "ABM", silo_index |-> silo_index,
         target_x |-> target_x, target_y |-> target_y,
         current_x_fp |-> to_fixed(start_x), current_y_fp |-> to_fixed(start_y),
         x_increment |-> inc[1], y_increment |-> inc[2],
         is_active |-> TRUE]

\* ICBM.__init__ / __post_init__; kind is "ICBM" or "SmartBomb".  A SmartBomb
\* is built with evasion_active = False and no nearby explosions; nothing in
\* Game calls detect_explosions.
NewICBM(kind, entry_x, entry_y, target_x, target_y, speed, can_mirv) ==
    LET inc == compute_increments(entry_x, entry_y, target_x, target_y, speed)
    IN  [kind |-> kind,
         target_x |-> target_x, target_y |-> target_y, speed |-> speed,
         current_x_fp |-> to_fixed(entry_x), current_y_fp |-> to_fixed(entry_y),
         x_increment |-> inc[1], y_increment |-> inc[2],
         can_mirv |-> can_mirv, has_mirved |-> FALSE,
         evasion_active |-> FALSE, nearby_explosions |-> << >>,
         is_active |-> TRUE]

\* the update body without its test of is_active
MissileStep_moves_inactive(m) ==
    LET nx == m.current_x_fp + m.x_increment
        ny == m.current_y_fp + m.y_increment
        arrived == has_passed_target(from_fixed(nx), from_fixed(ny),
                                     m.target_x, m.target_y,
                                     m.x_increment, m.y_increment)
    IN  [m EXCEPT !.current_x_fp = nx, !.current_y_fp = ny,
                  !.is_active = ~arrived]

\* ABM.update and ICBM.update: the same body
MissileStep(m) ==
    IF ~m.is_active THEN m
    ELSE LET nx == m.current_x_fp + m.x_increment
             ny == m.current_y_fp + m.y_increment
             arrived == has_passed_target(from_fixed(nx), from_fixed(ny),
                                          m.target_x, m.target_y,
                                          m.x_increment, m.y_increment)
         IN  [m EXCEPT !.current_x_fp = nx, !.current_y_fp = ny,
                       !.is_active = ~arrived]

ABM_update(a) == MissileStep(a)

ICBM_update(m) == MissileStep(m)

\* check_mirv_conditions with the altitude range open at its high end
check_mirv_conditions_below_high(icbm, active_icbm_count, remaining_wave_icbms, any_above_high) ==
    IF icbm.has_mirved \/ ~icbm.can_mirv THEN FALSE
    ELSE IF ~(MIRV_ALTITUDE_LOW <= current_y(icbm) /\ current_y(icbm) < MIRV_ALTITUDE_HIGH)
    THEN FALSE
    ELSE IF any_above_high THEN FALSE
    ELSE IF active_icbm_count >= MAX_ICBM_SLOTS THEN FALSE
    ELSE IF remaining_wave_icbms <= 0 THEN FALSE
    ELSE TRUE

\* ICBM.check_mirv_conditions
check_mirv_conditions(icbm, active_icbm_count, remaining_wave_icbms, any_above_high) ==
    IF icbm.has_mirved \/ ~icbm.can_mirv THEN FALSE
    ELSE LET alt == current_y(icbm)
         IN  IF ~(MIRV_ALTITUDE_LOW <= alt /\ alt <= MIRV_ALTITUDE_HIGH) THEN FALSE
             ELSE IF any_above_high THEN FALSE
             ELSE IF active_icbm_count >= MAX_ICBM_SLOTS THEN FALSE
             ELSE IF remaining_wave_icbms <= 0 THEN FALSE
             ELSE TRUE

\* ICBM.mirv that does not look at the free slots
mirv_ignores_free_slots(icbm, targets, active_icbm_count, remaining_wave_icbms) ==
    LET num == Min2(MIRV_MAX_CHILDREN, Min2(remaining_wave_icbms, Len(targets)))
    IN  [icbm |-> [icbm EXCEPT !.has_mirved = TRUE],
         children |-> [i \in 1 .. num |->
                         NewICBM("ICBM", current_x(icbm), current_y(icbm),
                                 targets[i][1], targets[i][2], icbm.speed, FALSE)]]

\* ICBM.mirv: [icbm, children]; range(num) is empty for num <= 0, as
\* 1 .. num is.  The children are of class ICBM whatever the parent is.
mirv(icbm, targets, active_icbm_count, remaining_wave_icbms) ==
    LET num == Min2(Min2(MIRV_MAX_CHILDREN, MAX_ICBM_SLOTS - active_icbm_count),
                    Min2(remaining_wave_icbms, Len(targets)))
    IN  [icbm |-> [icbm EXCEPT !.has_mirved = TRUE],
         children |-> [i \in 1 .. num |->
                         NewICBM("ICBM", current_x(icbm), current_y(icbm),
                                 targets[i][1], targets[i][2], icbm.speed, FALSE)]]

\* SmartBomb.detect_explosions
detect_explosions(m, explosion_centers) ==
    [m EXCEPT !.nearby_explosions = explosion_centers,
              !.evasion_active = Len(explosion_centers) > 0]

\* the closest of nearby_explosions, the first one on ties (SmartBomb._evade)
RECURSIVE ClosestExplosion(_, _, _, _)
ClosestExplosion(m, list, i, best) ==
    IF i > Len(list) THEN best
    ELSE LET d == distance_approx(current_x(m), current_y(m), list[i][1], list[i][2])
             bd == distance_approx(current_x(m), current_y(m), best[1], best[2])
         IN  ClosestExplosion(m, list, i + 1, IF d < bd THEN list[i] ELSE best)

\* _evade that looks at the x axis only
SmartBomb_evade_x_only(m) ==
    LET closest == ClosestExplosion(m, m.nearby_explosions, 2, m.nearby_explosions[1])
        dx_expl == closest[1] - current_x(m)
        step_x == IF dx_expl # 0 /\ ((m.x_increment > 0) = (dx_expl > 0))
                  THEN 0 ELSE m.x_increment
        nx == m.current_x_fp + step_x
        ny == m.current_y_fp + m.y_increment
        arrived == has_passed_target(from_fixed(nx), from_fixed(ny),
                                     m.target_x, m.target_y,
                                     m.x_increment, m.y_increment)
    IN  [m EXCEPT !.current_x_fp = nx, !.current_y_fp = ny,
                  !.is_active = ~arrived]

SmartBomb_evade(m) ==
    LET closest == ClosestExplosion(m, m.nearby_explosions, 2, m.nearby_explosions[1])
        dx_expl == closest[1] - current_x(m)
        dy_expl == closest[2] - current_y(m)
        step_x == IF dx_expl # 0 /\ ((m.x_increment > 0) = (dx_expl > 0))
                  THEN 0 ELSE m.x_increment
        step_y == IF dy_expl # 0 /\ ((m.y_increment > 0) = (dy_expl > 0))
                  THEN 0 ELSE m.y_increment
        nx == m.current_x_fp + step_x
        ny == m.current_y_fp + step_y
        arrived == has_passed_target(from_fixed(nx), from_fixed(ny),
                                     m.target_x, m.target_y,
                                     m.x_increment, m.y_increment)
    IN  [m EXCEPT !.current_x_fp = nx, !.current_y_fp = ny,
                  !.is_active = ~arrived]

SmartBomb_update(m) ==
    IF ~m.is_active THEN m
    ELSE IF m.evasion_active /\ Len(m.nearby_explosions) > 0
         THEN SmartBomb_evade(m)
         ELSE ICBM_update(m)

\* dynamic dispatch of icbm.update() on the slot's class
IcbmSlotUpdate(m) ==
    IF m.kind = "SmartBomb" THEN SmartBomb_update(m) ELSE ICBM_update(m)

\* Flier record and Flier.update (the type and the timers are never read by
\* the simulation core)
NewFlier(altitude, direction, speed, start_x) ==
    [kind |-> "Flier", altitude |-> altitude, direction |-> direction,
     speed |-> speed, current_x |-> start_x, is_active |-> TRUE]

Flier_update(f) ==
    IF ~f.is_active THEN f
    ELSE [f EXCEPT !.current_x = f.current_x + f.speed * f.direction]

\* ------------------------------------------------------------------------
\* MissileSlotManager (src/src/models/missile.py)
\* Slot tables are functions on 0..7; an empty slot holds None.
\* ------------------------------------------------------------------------
AbmIdx == 0 .. (MAX_ABM_SLOTS - 1)
IcbmIdx == 0 .. (MAX_ICBM_SLOTS - 1)

Occupied(s) == s # None
ActiveIn(s) == Occupied(s) /\ s.is_active
\* "slot is None or not slot.is_active"
FreeSlot(s) == ~Occupied(s) \/ ~s.is_active

active_abm_count_of(abms) == Cardinality({i \in AbmIdx : ActiveIn(abms[i])})
active_icbm_count_of(icbms) == Cardinality({i \in IcbmIdx : ActiveIn(icbms[i])})
smart_bomb_count_of(icbms) ==
    Cardinality({i \in IcbmIdx : ActiveIn(icbms[i]) /\ icbms[i].kind = "SmartBomb"})

\* the first index of a table whose slot is free, or -1
FirstFree(table, idx) ==
    IF \E i \in idx : FreeSlot(table[i])
    THEN CHOOSE i \in idx : FreeSlot(table[i]) /\ \A j \in idx : j < i => ~FreeSlot(table[j])
    ELSE -1

\* add_abm whose loop stops one slot short
add_abm_seven_slots(abms, abm) ==
    LET i == FirstFree(abms, 0 .. (MAX_ABM_SLOTS - 2))
    IN  IF i >= 0 THEN [slots |-> [abms EXCEPT ![i] = abm], ret |-> TRUE]
        ELSE [slots |-> abms, ret |-> FALSE]

\* add_abm that takes empty slots only, not those of inactive ABMs
add_abm_empty_only(abms, abm) ==
    IF \E i \in AbmIdx : abms[i] = None
    THEN LET i == CHOOSE k \in AbmIdx : abms[k] = None /\ \A j \in AbmIdx : j < k => abms[j] # None
         IN  [slots |-> [abms EXCEPT ![i] = abm], ret |-> TRUE]
    ELSE [slots |-> abms, ret |-> FALSE]

\* add_abm: [slots, ret]
add_abm(abms, abm) ==
    LET i == FirstFree(abms, AbmIdx)
    IN  IF i >= 0 THEN [slots |-> [abms EXCEPT ![i] = abm], ret |-> TRUE]
        ELSE [slots |-> abms, ret |-> FALSE]

\* add_icbm with the smart bomb limit tested by > : a third one passes
add_icbm_three_smart_bombs(icbms, icbm) ==
    IF icbm.kind = "SmartBomb" /\ smart_bomb_count_of(icbms) > MAX_SMART_BOMBS
    THEN [slots |-> icbms, ret |-> FALSE]
    ELSE LET i == FirstFree(icbms, IcbmIdx)
         IN  IF i >= 0 THEN [slots |-> [icbms EXCEPT ![i] = icbm], ret |-> TRUE]
             ELSE [slots |-> icbms, ret |-> FALSE]

\* add_icbm: [slots, ret]
add_icbm(icbms, icbm) ==
    IF icbm.kind = "SmartBomb" /\ smart_bomb_count_of(icbms) >= MAX_SMART_BOMBS
    THEN [slots |-> icbms, ret |-> FALSE]
    ELSE LET i == FirstFree(icbms, IcbmIdx)
         IN  IF i >= 0 THEN [slots |-> [icbms EXCEPT ![i] = icbm], ret |-> TRUE]
             ELSE [slots |-> icbms, ret |-> FALSE]

\* set_flier: [slot, ret]
set_flier(fl, flier) ==
    IF ActiveIn(fl) THEN [slot |-> fl, ret |-> FALSE]
    ELSE [slot |-> flier, ret |-> TRUE]

\* update_all: entities do not interact, so the table order has no effect
update_all_abms(abms) ==
    [i \in AbmIdx |-> IF ActiveIn(abms[i]) THEN ABM_update(abms[i]) ELSE abms[i]]

update_all_icbms(icbms) ==
    [i \in IcbmIdx |-> IF ActiveIn(icbms[i]) THEN IcbmSlotUpdate(icbms[i]) ELSE icbms[i]]

update_all_flier(fl) == IF ActiveIn(fl) THEN Flier_update(fl) ELSE fl

\* clear_inactive, per table
ClearSlot(s) == IF Occupied(s) /\ ~s.is_active THEN None ELSE s

clear_inactive_abms(abms) == [i \in AbmIdx |-> ClearSlot(abms[i])]

clear_inactive_icbms(icbms) == [i \in IcbmIdx |-> ClearSlot(icbms[i])]

\* ------------------------------------------------------------------------
\* Explosions (src/src/models/explosion.py)
\* ------------------------------------------------------------------------
ExplIdx == 0 .. (MAX_EXPLOSION_SLOTS - 1)

\* the 8 vertices: top, top-right, right, bottom-right, bottom,
\* bottom-left, left, top-left
octagon_points(cx, cy, radius) ==
    LET cut == (radius * EXPLOSION_OCTAGON_SLOPE_NUM) \div EXPLOSION_OCTAGON_SLOPE_DEN
    IN  << << cx, cy - radius >>,
           << cx + radius - cut, cy - cut >>,
           << cx + radius, cy >>,
           << cx + radius - cut, cy + cut >>,
           << cx, cy + radius >>,
           << cx - radius + cut, cy + cut >>,
           << cx - radius, cy >>,
           << cx - radius + cut, cy - cut >> >>

point_in_octagon(px, py, cx, cy, radius) ==
    LET dx == Abs(px - cx)
        dy == Abs(py - cy)
        cut == (radius * EXPLOSION_OCTAGON_SLOPE_NUM) \div EXPLOSION_OCTAGON_SLOPE_DEN
    IN  IF dx > radius \/ dy > radius THEN FALSE
        ELSE IF dx + dy > radius + cut THEN FALSE
        ELSE TRUE

NewExplosion(cx, cy, max_radius, expand_rate, hold_frames, contract_rate) ==
    [kind |-> "Explosion", center_x |-> cx, center_y |-> cy,
     max_radius |-> max_radius, expand_rate |-> expand_rate,
     hold_frames |-> hold_frames, contract_rate |-> contract_rate,
     group_id |-> 0, current_radius |-> 0, state |-> "EXPANDING",
     frame_counter |-> 0, is_active |-> TRUE]

\* Explosion.update that holds while frame_counter <= hold_frames
Explosion_update_holds_longer(e) ==
    IF ~e.is_active THEN e
    ELSE IF e.state = "EXPANDING"
    THEN LET r == e.current_radius + e.expand_rate
         IN  IF r >= e.max_radius
             THEN [e EXCEPT !.current_radius = e.max_radius,
                            !.state = "HOLDING", !.frame_counter = 0]
             ELSE [e EXCEPT !.current_radius = r]
    ELSE IF e.state = "HOLDING"
    THEN LET c == e.frame_counter + 1
         IN  IF c > e.hold_frames
             THEN [e EXCEPT !.frame_counter = c, !.state = "CONTRACTING"]
             ELSE [e EXCEPT !.frame_counter = c]
    ELSE IF e.state = "CONTRACTING"
    THEN LET r == e.current_radius - e.contract_rate
         IN  IF r <= 0
             THEN [e EXCEPT !.current_radius = 0, !.state = "DONE",
                            !.is_active = FALSE]
             ELSE [e EXCEPT !.current_radius = r]
    ELSE e

\* update whose contraction stops at radius 0 without reaching DONE
Explosion_update_never_done(e) ==
    IF ~e.is_active THEN e
    ELSE IF e.state = "EXPANDING"
    THEN LET r == e.current_radius + e.expand_rate
         IN  IF r >= e.max_radius
             THEN [e EXCEPT !.current_radius = e.max_radius,
                            !.state = "HOLDING", !.frame_counter = 0]
             ELSE [e EXCEPT !.current_radius = r]
    ELSE IF e.state = "HOLDING"
    THEN LET c == e.frame_counter + 1
         IN  IF c >= e.hold_frames
             THEN [e EXCEPT !.frame_counter = c, !.state = "CONTRACTING"]
             ELSE [e EXCEPT !.frame_counter = c]
    ELSE IF e.state = "CONTRACTING"
    THEN [e EXCEPT !.current_radius = Max2(e.current_radius - e.contract_rate, 0)]
    ELSE e

\* update without the two clamps of the radius
Explosion_update_unclamped(e) ==
    IF ~e.is_active THEN e
    ELSE IF e.state = "EXPANDING"
    THEN LET r == e.current_radius + e.expand_rate
         IN  IF r >= e.max_radius
             THEN [e EXCEPT !.current_radius = r,
                            !.state = "HOLDING", !.frame_counter = 0]
             ELSE [e EXCEPT !.current_radius = r]
    ELSE IF e.state = "HOLDING"
    THEN LET c == e.frame_counter + 1
         IN  IF c >= e.hold_frames
             THEN [e EXCEPT !.frame_counter = c, !.state = "CONTRACTING"]
             ELSE [e EXCEPT !.frame_counter = c]
    ELSE IF e.state = "CONTRACTING"
    THEN LET r == e.current_radius - e.contract_rate
         IN  IF r <= 0
             THEN [e EXCEPT !.current_radius = r, !.state = "DONE",
                            !.is_active = FALSE]
             ELSE [e EXCEPT !.current_radius = r]
    ELSE e

Explosion_update(e) ==
    IF ~e.is_active THEN e
    ELSE IF e.state = "EXPANDING"
    THEN LET r == e.current_radius + e.expand_rate
         IN  IF r >= e.max_radius
             THEN [e EXCEPT !.current_radius = e.max_radius,
                            !.state = "HOLDING", !.frame_counter = 0]
             ELSE [e EXCEPT !.current_radius = r]
    ELSE IF e.state = "HOLDING"
    THEN LET c == e.frame_counter + 1
         IN  IF c >= e.hold_frames
             THEN [e EXCEPT !.frame_counter = c, !.state = "CONTRACTING"]
             ELSE [e EXCEPT !.frame_counter = c]
    ELSE IF e.state = "CONTRACTING"
    THEN LET r == e.current_radius - e.contract_rate
         IN  IF r <= 0
             THEN [e EXCEPT !.current_radius = 0, !.state = "DONE",
                            !.is_active = FALSE]
             ELSE [e EXCEPT !.current_radius = r]
    ELSE e

\* collides_with without its test of the altitude
collides_with_any_altitude(e, x, y) ==
    IF ~e.is_active \/ e.current_radius <= 0 THEN FALSE
    ELSE point_in_octagon(x, y, e.center_x, e.center_y, e.current_radius)

collides_with(e, x, y) ==
    IF ~e.is_active \/ e.current_radius <= 0 THEN FALSE
    ELSE IF y < EXPLOSION_COLLISION_ALTITUDE_MIN THEN FALSE
    ELSE point_in_octagon(x, y, e.center_x, e.center_y, e.current_radius)

\* _group_indices, as the sequence of the group's slot indices
group_indices(group_id) ==
    [k \in 1 .. EXPLOSIONS_PER_GROUP |-> group_id * EXPLOSIONS_PER_GROUP + k - 1]

explosions_active_count_of(sl) == Cardinality({i \in ExplIdx : ActiveIn(sl[i])})

\* ExplosionManager.add that leaves the explosion's group_id as it came
explosions_add_keeps_group(sl, e) ==
    LET i == FirstFree(sl, ExplIdx)
    IN  IF i >= 0 THEN [slots |-> [sl EXCEPT ![i] = e], ret |-> TRUE]
        ELSE [slots |-> sl, ret |-> FALSE]

\* ExplosionManager.add: [slots, ret]
explosions_add(sl, e) ==
    LET i == FirstFree(sl, ExplIdx)
    IN  IF i >= 0
        THEN [slots |-> [sl EXCEPT ![i] = [e EXCEPT !.group_id = i \div EXPLOSIONS_PER_GROUP]],
              ret |-> TRUE]
        ELSE [slots |-> sl, ret |-> FALSE]

\* the loop of ExplosionManager.update over the group's indices gi[k..]:
\* [slots, updated], updated being the explosions stepped, as they are after
\* their step
RECURSIVE UpdateGroup(_, _, _, _)
UpdateGroup(sl, gi, k, updated) ==
    IF k > Len(gi) THEN [slots |-> sl, updated |-> updated]
    ELSE LET i == gi[k]
             exp == sl[i]
             stepped == IF ActiveIn(exp) THEN Explosion_update(exp) ELSE exp
             upd2 == IF ActiveIn(exp) THEN Append(updated, stepped) ELSE updated
             sl2 == IF Occupied(stepped) /\ ~stepped.is_active
                    THEN [sl EXCEPT ![i] = None]
                    ELSE [sl EXCEPT ![i] = stepped]
         IN  UpdateGroup(sl2, gi, k + 1, upd2)

\* the loop of update with the clean-up looking at the explosion as it was
\* before its step: one that becomes DONE stays until the next pass
RECURSIVE UpdateGroupCleansNextPass(_, _, _, _)
UpdateGroupCleansNextPass(sl, gi, k, updated) ==
    IF k > Len(gi) THEN [slots |-> sl, updated |-> updated]
    ELSE LET i == gi[k]
             exp == sl[i]
             stepped == IF ActiveIn(exp) THEN Explosion_update(exp) ELSE exp
             upd2 == IF ActiveIn(exp) THEN Append(updated, stepped) ELSE updated
             sl2 == IF Occupied(exp) /\ ~exp.is_active
                    THEN [sl EXCEPT ![i] = None]
                    ELSE [sl EXCEPT ![i] = stepped]
         IN  UpdateGroupCleansNextPass(sl2, gi, k + 1, upd2)

explosions_update_cleans_next_pass(sl, group) ==
    LET r == UpdateGroupCleansNextPass(sl, group_indices(group), 1, << >>)
    IN  [slots |-> r.slots, updated |-> r.updated,
         current_group |-> (group + 1) % EXPLOSION_GROUPS]

\* ExplosionManager.update that returns the active explosions of every group
explosions_update_returns_all(sl, group) ==
    LET r == UpdateGroup(sl, group_indices(group), 1, << >>)
    IN  [slots |-> r.slots,
         updated |-> SelectSeq([k \in 1 .. MAX_EXPLOSION_SLOTS |-> r.slots[k - 1]],
                               LAMBDA e : ActiveIn(e)),
         current_group |-> (group + 1) % EXPLOSION_GROUPS]

\* ExplosionManager.update that wraps the group counter at the group size
explosions_update_four_groups(sl, group) ==
    LET r == UpdateGroup(sl, group_indices(group), 1, << >>)
    IN  [slots |-> r.slots, updated |-> r.updated,
         current_group |-> (group + 1) % EXPLOSIONS_PER_GROUP]

\* ExplosionManager.update: [slots, updated, current_group]
explosions_update(sl, group) ==
    LET r == UpdateGroup(sl, group_indices(group), 1, << >>)
    IN  [slots |-> r.slots, updated |-> r.updated,
         current_group |-> (group + 1) % EXPLOSION_GROUPS]

\* the inner loop of check_icbm_collisions for one explosion
RECURSIVE HitsOfExplosion(_, _, _)
HitsOfExplosion(ex, positions, k) ==
    IF k > Len(positions) THEN << >>
    ELSE (IF collides_with(ex, positions[k][1], positions[k][2])
          THEN << positions[k][3] >> ELSE << >>)
         \o HitsOfExplosion(ex, positions, k + 1)

\* check_icbm_collisions: the list of hit slot indices, with repetitions
RECURSIVE check_icbm_collisions(_, _, _)
check_icbm_collisions(explosions, positions, j) ==
    IF j > Len(explosions) THEN << >>
    ELSE HitsOfExplosion(explosions[j], positions, 1)
         \o check_icbm_collisions(explosions, positions, j + 1)

\* ------------------------------------------------------------------------
\* CityManager (src/src/models/city.py)
\* A CityManager value is the record
\*   [cities, bonus_cities, bonus_threshold, cities_destroyed_this_wave,
\*    last_bonus_score]
\* where cities[i] is city i's is_destroyed (City.is_active is always its
\* negation) and city i stands at CITY_POSITIONS[i + 1].
\* ------------------------------------------------------------------------
CityIdx == 0 .. (NUM_CITIES_DEFAULT - 1)

city_x(i) == CITY_POSITIONS[i + 1][1]
city_y(i) == CITY_POSITIONS[i + 1][2]

cities_active_count(cm) == Cardinality({i \in CityIdx : ~cm.cities[i]})
total_cities(cm) == cities_active_count(cm) + cm.bonus_cities
all_destroyed(cm) == cities_active_count(cm) = 0 /\ cm.bonus_cities = 0

\* start_wave that resets the counter and leaves the craters
cities_start_wave_keeps_craters(cm) ==
    [cm EXCEPT !.cities_destroyed_this_wave = 0]

\* CityManager.start_wave
cities_start_wave(cm) ==
    [cm EXCEPT !.cities_destroyed_this_wave = 0,
               !.cities = [i \in CityIdx |-> FALSE]]

\* destroy_city with the limit tested by > : a fourth city falls
destroy_city_four_per_wave(cm, index) ==
    IF index < 0 \/ index >= NUM_CITIES_DEFAULT THEN [cm |-> cm, ret |-> FALSE]
    ELSE IF cm.cities[index] THEN [cm |-> cm, ret |-> FALSE]
    ELSE IF cm.cities_destroyed_this_wave > MAX_CITIES_DESTROYED_PER_WAVE
    THEN [cm |-> cm, ret |-> FALSE]
    ELSE [cm |-> [cm EXCEPT !.cities[index] = TRUE,
                            !.cities_destroyed_this_wave = @ + 1],
          ret |-> TRUE]

\* destroy_city: [cm, ret]
destroy_city(cm, index) ==
    IF index < 0 \/ index >= NUM_CITIES_DEFAULT THEN [cm |-> cm, ret |-> FALSE]
    ELSE IF cm.cities[index] THEN [cm |-> cm, ret |-> FALSE]
    ELSE IF cm.cities_destroyed_this_wave >= MAX_CITIES_DESTROYED_PER_WAVE
    THEN [cm |-> cm, ret |-> FALSE]
    ELSE [cm |-> [cm EXCEPT !.cities[index] = TRUE,
                            !.cities_destroyed_this_wave = @ + 1],
          ret |-> TRUE]

\* destroy_city_at: the first standing city within radius on both axes
InCityRadius(i, x, y, radius) ==
    Abs(city_x(i) - x) <= radius /\ Abs(city_y(i) - y) <= radius

destroy_city_at(cm, x, y, radius) ==
    LET near == {i \in CityIdx : ~cm.cities[i] /\ InCityRadius(i, x, y, radius)}
    IN  IF near = {} THEN [cm |-> cm, ret |-> FALSE]
        ELSE destroy_city(cm, CHOOSE i \in near : \A j \in near : i <= j)

\* check_bonus: [cm, awarded]; the while loop, one award per iteration.
\* BonusStep is one test of the loop condition and, where it holds, one
\* pass through the body; BonusLoop runs them 16 at a time until the
\* condition fails, which keeps the evaluation shallow for long loops.
BonusStep(r, current_score) ==
    IF current_score - r.cm.last_bonus_score >= r.cm.bonus_threshold
    THEN [cm |-> [r.cm EXCEPT !.last_bonus_score = @ + r.cm.bonus_threshold,
                              !.bonus_cities = (@ + 1) % 256],
          awarded |-> r.awarded + 1]
    ELSE r

BonusStep4(r, current_score) ==
    BonusStep(BonusStep(BonusStep(BonusStep(r, current_score), current_score),
                        current_score), current_score)

BonusStep16(r, current_score) ==
    BonusStep4(BonusStep4(BonusStep4(BonusStep4(r, current_score), current_score),
                          current_score), current_score)

RECURSIVE BonusLoop(_, _)
BonusLoop(r, current_score) ==
    IF current_score - r.cm.last_bonus_score >= r.cm.bonus_threshold
    THEN BonusLoop(BonusStep16(r, current_score), current_score)
    ELSE r

\* check_bonus with "if" for "while": one award a call
check_bonus_single_award(cm, current_score) ==
    IF cm.bonus_threshold <= 0 THEN [cm |-> cm, awarded |-> 0]
    ELSE IF current_score - cm.last_bonus_score >= cm.bonus_threshold
    THEN [cm |-> [cm EXCEPT !.last_bonus_score = @ + cm.bonus_threshold,
                            !.bonus_cities = (@ + 1) % 256],
          awarded |-> 1]
    ELSE [cm |-> cm, awarded |-> 0]

\* check_bonus that reads a threshold of 0 as the default threshold
check_bonus_zero_is_default(cm, current_score) ==
    IF cm.bonus_threshold < 0 THEN [cm |-> cm, awarded |-> 0]
    ELSE LET t == IF cm.bonus_threshold = 0 THEN BONUS_CITY_POINTS
                  ELSE cm.bonus_threshold
             r == BonusLoop([cm |-> [cm EXCEPT !.bonus_threshold = t], awarded |-> 0],
                            current_score)
         IN  [cm |-> [r.cm EXCEPT !.bonus_threshold = cm.bonus_threshold],
              awarded |-> r.awarded]

check_bonus(cm, current_score) ==
    IF cm.bonus_threshold <= 0 THEN [cm |-> cm, awarded |-> 0]
    ELSE BonusLoop([cm |-> cm, awarded |-> 0], current_score)

\* replace_random_crater: [cm, ret]; idx is what random.choice(craters)
\* returns, any element of craters
craters(cm) == {i \in CityIdx : cm.cities[i]}

\* replace_random_crater that restores the city and keeps the bank
replace_random_crater_keeps_bank(cm, idx) ==
    IF cm.bonus_cities <= 0 THEN [cm |-> cm, ret |-> FALSE]
    ELSE IF craters(cm) = {} THEN [cm |-> cm, ret |-> FALSE]
    ELSE [cm |-> [cm EXCEPT !.cities[idx] = FALSE], ret |-> TRUE]

replace_random_crater(cm, idx) ==
    IF cm.bonus_cities <= 0 THEN [cm |-> cm, ret |-> FALSE]
    ELSE IF craters(cm) = {} THEN [cm |-> cm, ret |-> FALSE]
    ELSE [cm |-> [cm EXCEPT !.cities[idx] = FALSE,
                            !.bonus_cities = (@ - 1) % 256],
          ret |-> TRUE]

\* ------------------------------------------------------------------------
\* Defence silos and their manager (src/src/models/defense.py)
\* silos[i] is [abm_count, is_destroyed]; silo i stands at
\* SILO_POSITIONS[i + 1].
\* ------------------------------------------------------------------------
SiloIdx == 0 .. (NUM_SILOS - 1)

silo_x(i) == SILO_POSITIONS[i + 1][1]
silo_y(i) == SILO_POSITIONS[i + 1][2]

can_fire(silo) == ~silo.is_destroyed /\ silo.abm_count > 0

\* DefenseSilo.fire of silo i: [silos, abm], abm being None on failure
silo_fire(sil, i, target_x, target_y) ==
    IF ~can_fire(sil[i]) THEN [silos |-> sil, abm |-> None]
    ELSE [silos |-> [sil EXCEPT ![i].abm_count = @ - 1],
          abm |-> NewABM(i, silo_x(i), silo_y(i), target_x, target_y)]

\* DefenseManager.fire with the cap tested by > : a ninth interceptor passes
defences_fire_cap_off_by_one(sil, silo_index, target_x, target_y, current_active_abms) ==
    IF current_active_abms > MAX_ABM_SLOTS THEN [silos |-> sil, abm |-> None]
    ELSE IF silo_index < 0 \/ silo_index >= NUM_SILOS THEN [silos |-> sil, abm |-> None]
    ELSE silo_fire(sil, silo_index, target_x, target_y)

\* DefenseManager.fire
defences_fire(sil, silo_index, target_x, target_y, current_active_abms) ==
    IF current_active_abms >= MAX_ABM_SLOTS THEN [silos |-> sil, abm |-> None]
    ELSE IF silo_index < 0 \/ silo_index >= NUM_SILOS THEN [silos |-> sil, abm |-> None]
    ELSE silo_fire(sil, silo_index, target_x, target_y)

\* the loop of fire_nearest over silos k..2: the best silo so far (-1: none)
RECURSIVE NearestLoop(_, _, _, _)
NearestLoop(sil, target_x, k, best) ==
    IF k >= NUM_SILOS THEN best
    ELSE IF ~can_fire(sil[k]) THEN NearestLoop(sil, target_x, k + 1, best)
    ELSE IF best < 0 \/ Abs(silo_x(k) - target_x) < Abs(silo_x(best) - target_x)
    THEN NearestLoop(sil, target_x, k + 1, k)
    ELSE NearestLoop(sil, target_x, k + 1, best)

\* the loop with d <= best_dist: the last of equally near silos wins
RECURSIVE NearestLoopLast(_, _, _, _)
NearestLoopLast(sil, target_x, k, best) ==
    IF k >= NUM_SILOS THEN best
    ELSE IF ~can_fire(sil[k]) THEN NearestLoopLast(sil, target_x, k + 1, best)
    ELSE IF best < 0 \/ Abs(silo_x(k) - target_x) <= Abs(silo_x(best) - target_x)
    THEN NearestLoopLast(sil, target_x, k + 1, k)
    ELSE NearestLoopLast(sil, target_x, k + 1, best)

defences_fire_nearest_last_on_ties(sil, target_x, target_y, current_active_abms) ==
    IF current_active_abms >= MAX_ABM_SLOTS THEN [silos |-> sil, abm |-> None]
    ELSE LET best == NearestLoopLast(sil, target_x, 0, -1)
         IN  IF best < 0 THEN [silos |-> sil, abm |-> None]
             ELSE silo_fire(sil, best, target_x, target_y)

\* DefenseManager.fire_nearest
defences_fire_nearest(sil, target_x, target_y, current_active_abms) ==
    IF current_active_abms >= MAX_ABM_SLOTS THEN [silos |-> sil, abm |-> None]
    ELSE LET best == NearestLoop(sil, target_x, 0, -1)
         IN  IF best < 0 THEN [silos |-> sil, abm |-> None]
             ELSE silo_fire(sil, best, target_x, target_y)

\* restore_all
restore_all(sil) == [i \in SiloIdx |-> [abm_count |-> SILO_CAPACITY, is_destroyed |-> FALSE]]

total_abm_count(sil) == SumUpTo([i \in SiloIdx |-> sil[i].abm_count], NUM_SILOS)

\* ------------------------------------------------------------------------
\* Wave helpers (src/src/utils/functions.py)
\* ------------------------------------------------------------------------
get_wave_speed(wave) ==
    LET idx == Min2(wave - 1, Len(WAVE_SPEEDS) - 1)
    IN  WAVE_SPEEDS[Max2(idx, 0) + 1]

\* the wave bonus with the two rates exchanged
calculate_wave_bonus_swapped(surviving_cities, remaining_abms) ==
    surviving_cities * POINTS_PER_REMAINING_ABM
    + remaining_abms * POINTS_PER_SURVIVING_CITY

calculate_wave_bonus(surviving_cities, remaining_abms) ==
    surviving_cities * POINTS_PER_SURVIVING_CITY
    + remaining_abms * POINTS_PER_REMAINING_ABM

\* ------------------------------------------------------------------------
\* Game (src/src/game.py)
\* A Game value is the record G below; each method is an operator from the
\* game before the call to [g |-> the game after it, ret |-> its result].
\* ------------------------------------------------------------------------
VARIABLES
    state,                      \* Game.state
    wave_number,                \* Game.wave_number
    icbms_remaining_this_wave,  \* Game.icbms_remaining_this_wave
    frame_count,                \* Game.frame_count
    player_score,               \* Game.score_display.player_score
    abm_slots,                  \* Game.missiles.abm_slots
    icbm_slots,                 \* Game.missiles.icbm_slots
    flier_slot,                 \* Game.missiles.flier_slot
    expl_slots,                 \* Game.explosions.slots
    current_group,              \* Game.explosions.current_group
    cities,                     \* Game.cities (a CityManager value)
    silos,                      \* Game.defences.silos
    app_start_wave,             \* MissileCommandApp.start_wave (--wave)
    calls,                      \* calls made other than update() and start_wave()
    last                        \* the last call made and what it returned

vars == << state, wave_number, icbms_remaining_this_wave, frame_count,
           player_score, abm_slots, icbm_slots, flier_slot, expl_slots,
           current_group, cities, silos, app_start_wave, calls, last >>

\* everything of the game itself
gvars == << state, wave_number, icbms_remaining_this_wave, frame_count,
            player_score, abm_slots, icbm_slots, flier_slot, expl_slots,
            current_group, cities, silos >>

G == [state |-> state, wave_number |-> wave_number,
      icbms_remaining_this_wave |-> icbms_remaining_this_wave,
      frame_count |-> frame_count, player_score |-> player_score,
      abm_slots |-> abm_slots, icbm_slots |-> icbm_slots,
      flier_slot |-> flier_slot, expl_slots |-> expl_slots,
      current_group |-> current_group, cities |-> cities, silos |-> silos]

\* the game after a call is g
Becomes(g) ==
    /\ state' = g.state
    /\ wave_number' = g.wave_number
    /\ icbms_remaining_this_wave' = g.icbms_remaining_this_wave
    /\ frame_count' = g.frame_count
    /\ player_score' = g.player_score
    /\ abm_slots' = g.abm_slots
    /\ icbm_slots' = g.icbm_slots
    /\ flier_slot' = g.flier_slot
    /\ expl_slots' = g.expl_slots
    /\ current_group' = g.current_group
    /\ cities' = g.cities
    /\ silos' = g.silos

\* the game is g
Is(g) ==
    /\ state = g.state
    /\ wave_number = g.wave_number
    /\ icbms_remaining_this_wave = g.icbms_remaining_this_wave
    /\ frame_count = g.frame_count
    /\ player_score = g.player_score
    /\ abm_slots = g.abm_slots
    /\ icbm_slots = g.icbm_slots
    /\ flier_slot = g.flier_slot
    /\ expl_slots = g.expl_slots
    /\ current_group = g.current_group
    /\ cities = g.cities
    /\ silos = g.silos

EmptyAbms == [i \in AbmIdx |-> None]
EmptyIcbms == [i \in IcbmIdx |-> None]
EmptyExplosions == [i \in ExplIdx |-> None]

\* Game() as main.py configures it: wave_number from --wave, the bonus
\* threshold of the CityManager
NewGame(wave, threshold) ==
    [state |-> "ATTRACT", wave_number |-> wave,
     icbms_remaining_this_wave |-> 0, frame_count |-> 0, player_score |-> 0,
     abm_slots |-> EmptyAbms, icbm_slots |-> EmptyIcbms, flier_slot |-> None,
     expl_slots |-> EmptyExplosions, current_group |-> 0,
     cities |-> [cities |-> [i \in CityIdx |-> FALSE], bonus_cities |-> 0,
                 bonus_threshold |-> threshold,
                 cities_destroyed_this_wave |-> 0, last_bonus_score |-> 0],
     silos |-> [i \in SiloIdx |-> [abm_count |-> SILO_CAPACITY, is_destroyed |-> FALSE]]]

\* the launch budget without its cap
icbms_for_wave_uncapped(wave) == WAVE_BUDGET_BASE + wave * 2

icbms_for_wave(wave) == Min2(WAVE_BUDGET_BASE + wave * 2, WAVE_BUDGET_CAP)

\* start_wave whose reset of the explosions leaves current_group as it is
start_wave_keeps_group(g) ==
    [g EXCEPT !.state = "RUNNING",
              !.silos = restore_all(g.silos),
              !.cities = cities_start_wave(g.cities),
              !.abm_slots = EmptyAbms,
              !.icbm_slots = EmptyIcbms,
              !.flier_slot = None,
              !.expl_slots = EmptyExplosions,
              !.icbms_remaining_this_wave = icbms_for_wave(g.wave_number),
              !.frame_count = 0]

\* Game.start_wave
start_wave(g) ==
    [g EXCEPT !.state = "RUNNING",
              !.silos = restore_all(g.silos),
              !.cities = cities_start_wave(g.cities),
              !.abm_slots = EmptyAbms,
              !.icbm_slots = EmptyIcbms,
              !.flier_slot = None,
              !.expl_slots = EmptyExplosions,
              !.current_group = 0,
              !.icbms_remaining_this_wave = icbms_for_wave(g.wave_number),
              !.frame_count = 0]

\* Game.end_wave
end_wave(g) ==
    LET bonus == calculate_wave_bonus(cities_active_count(g.cities),
                                      total_abm_count(g.silos))
        score == g.player_score + bonus
    IN  [g EXCEPT !.player_score = score,
                  !.cities = check_bonus(g.cities, score).cm,
                  !.wave_number = g.wave_number + 1,
                  !.state = "WAVE_END"]

\* step 3 of update: the (x, y, slot) of the active ICBM slots i.., in order
RECURSIVE IcbmPositions(_, _)
IcbmPositions(icbms, i) ==
    IF i >= MAX_ICBM_SLOTS THEN << >>
    ELSE (IF ActiveIn(icbms[i])
          THEN << <<current_x(icbms[i]), current_y(icbms[i]), i>> >>
          ELSE << >>)
         \o IcbmPositions(icbms, i + 1)

\* the loop over hit_indices without its test of slot.is_active: an entity
\* scores once per explosion that holds it
RECURSIVE ApplyHitsPerExplosion(_, _, _, _)
ApplyHitsPerExplosion(hits, k, icbms, score) ==
    IF k > Len(hits) THEN [icbms |-> icbms, score |-> score]
    ELSE ApplyHitsPerExplosion(hits, k + 1,
                               [icbms EXCEPT ![hits[k]].is_active = FALSE],
                               score + (IF icbms[hits[k]].kind = "SmartBomb"
                                        THEN POINTS_PER_SMART_BOMB
                                        ELSE POINTS_PER_ICBM))

\* step 3 of update: "for idx in hit_indices": [icbms, score]
RECURSIVE ApplyHits(_, _, _, _)
ApplyHits(hits, k, icbms, score) ==
    IF k > Len(hits) THEN [icbms |-> icbms, score |-> score]
    ELSE LET slot == icbms[hits[k]]
         IN  IF ActiveIn(slot)
             THEN ApplyHits(hits, k + 1,
                            [icbms EXCEPT ![hits[k]].is_active = FALSE],
                            score + (IF slot.kind = "SmartBomb"
                                     THEN POINTS_PER_SMART_BOMB
                                     ELSE POINTS_PER_ICBM))
             ELSE ApplyHits(hits, k + 1, icbms, score)

\* step 4 of update: some updated explosion collides with the flier
FlierHit(fl, updated) ==
    /\ ActiveIn(fl)
    /\ \E j \in 1 .. Len(updated) : collides_with(updated[j], fl.current_x, fl.altitude)

\* step 5 of update: "for slot in icbm_slots: if not slot.is_active": the
\* CityManager after it
RECURSIVE Detonations(_, _, _)
Detonations(icbms, i, cm) ==
    IF i >= MAX_ICBM_SLOTS THEN cm
    ELSE IF Occupied(icbms[i]) /\ ~icbms[i].is_active
    THEN Detonations(icbms, i + 1,
                     destroy_city_at(cm, current_x(icbms[i]), current_y(icbms[i]),
                                     DESTROY_RADIUS).cm)
    ELSE Detonations(icbms, i + 1, cm)

\* steps 1 to 6 of update with the ABMs tested against the explosions too
update_pipeline_hits_abms(g) ==
    LET moved == clear_inactive_abms(update_all_abms(g.abm_slots))
        icbms1 == clear_inactive_icbms(update_all_icbms(g.icbm_slots))
        flier1 == ClearSlot(update_all_flier(g.flier_slot))
        ex == explosions_update(g.expl_slots, g.current_group)
        abms1 == [i \in AbmIdx |->
                    IF /\ ActiveIn(moved[i])
                       /\ \E j \in 1 .. Len(ex.updated) :
                             collides_with(ex.updated[j], current_x(moved[i]),
                                           current_y(moved[i]))
                    THEN [moved[i] EXCEPT !.is_active = FALSE]
                    ELSE moved[i]]
        hits == check_icbm_collisions(ex.updated, IcbmPositions(icbms1, 0), 1)
        h == ApplyHits(hits, 1, icbms1, g.player_score)
        fhit == FlierHit(flier1, ex.updated)
        score == h.score + (IF fhit THEN POINTS_PER_FLIER ELSE 0)
        flier2 == IF fhit THEN [flier1 EXCEPT !.is_active = FALSE] ELSE flier1
        cm5 == Detonations(h.icbms, 0, g.cities)
        cm6 == check_bonus(cm5, score).cm
    IN  [g EXCEPT !.frame_count = g.frame_count + 1,
                  !.abm_slots = abms1,
                  !.icbm_slots = h.icbms,
                  !.flier_slot = flier2,
                  !.expl_slots = ex.slots,
                  !.current_group = ex.current_group,
                  !.player_score = score,
                  !.cities = cm6]

\* steps 1 to 6 of update with an explosion added where an ABM arrives
update_pipeline_detonates_abms(g) ==
    LET moved == update_all_abms(g.abm_slots)
        arrived == {i \in AbmIdx : Occupied(moved[i]) /\ ~moved[i].is_active}
        first == CHOOSE i \in arrived : \A j \in arrived : i <= j
        sl == IF arrived = {} THEN g.expl_slots
              ELSE explosions_add(g.expl_slots,
                                  NewExplosion(current_x(moved[first]),
                                               current_y(moved[first]),
                                               13, 1, 1, 1)).slots
        abms1 == clear_inactive_abms(moved)
        icbms1 == clear_inactive_icbms(update_all_icbms(g.icbm_slots))
        flier1 == ClearSlot(update_all_flier(g.flier_slot))
        ex == explosions_update(sl, g.current_group)
        hits == check_icbm_collisions(ex.updated, IcbmPositions(icbms1, 0), 1)
        h == ApplyHits(hits, 1, icbms1, g.player_score)
        cm5 == Detonations(h.icbms, 0, g.cities)
    IN  [g EXCEPT !.frame_count = g.frame_count + 1,
                  !.abm_slots = abms1,
                  !.icbm_slots = h.icbms,
                  !.flier_slot = flier1,
                  !.expl_slots = ex.slots,
                  !.current_group = ex.current_group,
                  !.player_score = h.score,
                  !.cities = check_bonus(cm5, h.score).cm]

\* steps 1 to 6 of update, for a RUNNING game
update_pipeline(g) ==
    LET abms1 == clear_inactive_abms(update_all_abms(g.abm_slots))
        icbms1 == clear_inactive_icbms(update_all_icbms(g.icbm_slots))
        flier1 == ClearSlot(update_all_flier(g.flier_slot))
        ex == explosions_update(g.expl_slots, g.current_group)
        hits == check_icbm_collisions(ex.updated, IcbmPositions(icbms1, 0), 1)
        h == ApplyHits(hits, 1, icbms1, g.player_score)
        fhit == FlierHit(flier1, ex.updated)
        score == h.score + (IF fhit THEN POINTS_PER_FLIER ELSE 0)
        flier2 == IF fhit THEN [flier1 EXCEPT !.is_active = FALSE] ELSE flier1
        cm5 == Detonations(h.icbms, 0, g.cities)
        cm6 == check_bonus(cm5, score).cm
    IN  [g EXCEPT !.frame_count = g.frame_count + 1,
                  !.abm_slots = abms1,
                  !.icbm_slots = h.icbms,
                  !.flier_slot = flier2,
                  !.expl_slots = ex.slots,
                  !.current_group = ex.current_group,
                  !.player_score = score,
                  !.cities = cm6]

\* step 7 with the wave-end test ahead of the game-over test
update_conditions_wave_end_first(g) ==
    IF /\ g.icbms_remaining_this_wave <= 0
       /\ active_icbm_count_of(g.icbm_slots) = 0
       /\ explosions_active_count_of(g.expl_slots) = 0
    THEN end_wave(g)
    ELSE IF all_destroyed(g.cities) THEN [g EXCEPT !.state = "GAME_OVER"]
    ELSE g

\* step 7 of update
update_conditions(g) ==
    IF all_destroyed(g.cities) THEN [g EXCEPT !.state = "GAME_OVER"]
    ELSE IF /\ g.icbms_remaining_this_wave <= 0
            /\ active_icbm_count_of(g.icbm_slots) = 0
            /\ explosions_active_count_of(g.expl_slots) = 0
    THEN end_wave(g)
    ELSE g

\* update without its test of the state: every call is a tick
update_unguarded(g) ==
    LET g7 == update_conditions(update_pipeline(g))
    IN  [g |-> g7, ret |-> g7.state]

\* update that idles in ATTRACT and GAME_OVER only: ticks run between waves
update_between_waves(g) ==
    IF g.state \in {"ATTRACT", "GAME_OVER"} THEN [g |-> g, ret |-> g.state]
    ELSE update_unguarded(g)

\* Game.update: [g, ret]
update(g) ==
    IF g.state # "RUNNING" THEN [g |-> g, ret |-> g.state]
    ELSE LET g7 == update_conditions(update_pipeline(g))
         IN  [g |-> g7, ret |-> g7.state]

\* Game.fire_from_silo: [g, ret]
fire_from_silo(g, silo_index, target_x, target_y) ==
    LET f == defences_fire(g.silos, silo_index, target_x, target_y,
                           active_abm_count_of(g.abm_slots))
    IN  IF f.abm = None THEN [g |-> g, ret |-> FALSE]
        ELSE LET a == add_abm(g.abm_slots, f.abm)
             IN  [g |-> [g EXCEPT !.silos = f.silos, !.abm_slots = a.slots],
                  ret |-> a.ret]

\* Game.fire_nearest: [g, ret]
fire_nearest(g, target_x, target_y) ==
    LET f == defences_fire_nearest(g.silos, target_x, target_y,
                                   active_abm_count_of(g.abm_slots))
    IN  IF f.abm = None THEN [g |-> g, ret |-> FALSE]
        ELSE LET a == add_abm(g.abm_slots, f.abm)
             IN  [g |-> [g EXCEPT !.silos = f.silos, !.abm_slots = a.slots],
                  ret |-> a.ret]

\* spawn_icbm that takes the launch from the budget before the admission
spawn_icbm_budget_first(g, entry_x, entry_y, target_x, target_y, can_mirv) ==
    IF g.icbms_remaining_this_wave <= 0 THEN [g |-> g, ret |-> FALSE]
    ELSE LET icbm == NewICBM("ICBM", entry_x, entry_y, target_x, target_y,
                             get_wave_speed(g.wave_number), can_mirv)
             a == add_icbm(g.icbm_slots, icbm)
         IN  [g |-> [g EXCEPT !.icbm_slots = a.slots,
                              !.icbms_remaining_this_wave = @ - 1],
              ret |-> a.ret]

\* Game.spawn_icbm: [g, ret]
spawn_icbm(g, entry_x, entry_y, target_x, target_y, can_mirv) ==
    IF g.icbms_remaining_this_wave <= 0 THEN [g |-> g, ret |-> FALSE]
    ELSE LET icbm == NewICBM("ICBM", entry_x, entry_y, target_x, target_y,
                             get_wave_speed(g.wave_number), can_mirv)
             a == add_icbm(g.icbm_slots, icbm)
         IN  IF a.ret
             THEN [g |-> [g EXCEPT !.icbm_slots = a.slots,
                                   !.icbms_remaining_this_wave = @ - 1],
                   ret |-> TRUE]
             ELSE [g |-> g, ret |-> FALSE]

\* ------------------------------------------------------------------------
\* Actions: one per call.  Call(op, r) is the step of a call named op that
\* leaves the game r.g and returns r.ret; last records the call, what it
\* returned and the state it was made in.
\* ------------------------------------------------------------------------
Call(op, r) ==
    /\ Becomes(r.g)
    /\ last' = [op |-> op, ret |-> r.ret, from |-> state]
    /\ UNCHANGED app_start_wave

\* a call that counts against MaxCalls
Counted(op, r) ==
    /\ calls < MaxCalls
    /\ calls' = calls + 1
    /\ Call(op, r)

StartWave ==
    /\ wave_number < app_start_wave + MaxWaves
    /\ UNCHANGED calls
    /\ Call("start_wave", [g |-> start_wave(G), ret |-> "None"])

Update ==
    /\ state = "RUNNING" => frame_count < MaxFrames
    /\ UNCHANGED calls
    /\ Call("update", update(G))

FireFromSilo(silo_index, target_x, target_y) ==
    Counted("fire_from_silo", fire_from_silo(G, silo_index, target_x, target_y))

FireNearest(target_x, target_y) ==
    Counted("fire_nearest", fire_nearest(G, target_x, target_y))

SpawnIcbm(entry_x, entry_y, target_x, target_y, can_mirv) ==
    Counted("spawn_icbm", spawn_icbm(G, entry_x, entry_y, target_x, target_y, can_mirv))

\* game.explosions.add(Explosion(...))
AddExplosion(e) ==
    LET a == explosions_add(expl_slots, e)
    IN  Counted("explosions.add", [g |-> [G EXCEPT !.expl_slots = a.slots], ret |-> a.ret])

\* game.missiles.add_icbm(SmartBomb(...))
AddSmartBomb(entry_x, entry_y, target_x, target_y, speed) ==
    LET a == add_icbm(icbm_slots,
                      NewICBM("SmartBomb", entry_x, entry_y, target_x, target_y, speed, FALSE))
    IN  Counted("missiles.add_icbm", [g |-> [G EXCEPT !.icbm_slots = a.slots], ret |-> a.ret])

\* game.missiles.set_flier(Flier(...))
SetFlier(f) ==
    LET a == set_flier(flier_slot, f)
    IN  Counted("missiles.set_flier", [g |-> [G EXCEPT !.flier_slot = a.slot], ret |-> a.ret])

\* game.cities.cities[i].destroy(): City.destroy, no per-wave limit
CityDestroy(i) ==
    Counted("city.destroy", [g |-> [G EXCEPT !.cities.cities[i] = TRUE], ret |-> "None"])

\* "for city in game.cities.cities: city.destroy()"
DestroyAllCities ==
    Counted("cities.destroy_all",
            [g |-> [G EXCEPT !.cities.cities = [i \in CityIdx |-> TRUE]], ret |-> "None"])

\* game.defences.silos[i].destroy()
SiloDestroy(i) ==
    Counted("silo.destroy", [g |-> [G EXCEPT !.silos[i].is_destroyed = TRUE], ret |-> "None"])

\* ------------------------------------------------------------------------
\* Inputs
\* ------------------------------------------------------------------------
\* the --wave values the game is started with: -4 gives a launch budget of 0,
\* 12 one that the cap of 30 cuts
InitWaves == {-4, 12}
\* CityManager.bonus_threshold, a field its callers set: one that a single
\* wave bonus reaches
InitThresholds == {500}
\* spawn_icbm(entry, target): straight down on city 0, two ticks at speed 1
SpawnInputs == { <<48, 214, 48, 216>> }
\* fire_from_silo(silo, target): one tick of flight
FireInputs == { <<0, 32, 217>>, <<1, 128, 213>> }
\* fire_nearest(target)
NearestInputs == { <<32, 217>> }
\* Explosion(center, max_radius, expand_rate, hold_frames, contract_rate)
\* one over city 0, one above the collision line
ExplosionInputs == { NewExplosion(48, 215, 13, 13, 1, 13),
                     NewExplosion(48, 21, 13, 13, 1, 13) }
\* SmartBomb(entry, target, speed)
SmartBombInputs == { <<48, 214, 48, 216, 1>>, <<48, 20, 48, 22, 1>> }
\* Flier(altitude, direction, speed, current_x)
FlierInputs == { NewFlier(215, 1, 1, 47) }

Init ==
    /\ app_start_wave \in InitWaves
    /\ \E thr \in InitThresholds : Is(NewGame(app_start_wave, thr))
    /\ calls = 0
    /\ last = [op |-> "Game", ret |-> "None", from |-> "ATTRACT"]

Next ==
    \/ StartWave
    \/ Update
    \/ \E f \in FireInputs : FireFromSilo(f[1], f[2], f[3])
    \/ \E t \in NearestInputs : FireNearest(t[1], t[2])
    \/ \E s \in SpawnInputs : SpawnIcbm(s[1], s[2], s[3], s[4], FALSE)
    \/ \E e \in ExplosionInputs : AddExplosion(e)
    \/ \E b \in SmartBombInputs : AddSmartBomb(b[1], b[2], b[3], b[4], b[5])
    \/ \E f \in FlierInputs : SetFlier(f)
    \/ \E i \in CityIdx : CityDestroy(i)
    \/ DestroyAllCities
    \/ \E i \in SiloIdx : SiloDestroy(i)

Spec == Init /\ [][Next]_vars

\* ------------------------------------------------------------------------
\* SpecGame: the game driven through its own methods only, from wave 1
\* ------------------------------------------------------------------------
GameInitWaves == {1}
\* spawn_icbm(entry, target): one tick of flight at the speed of wave 1
GameSpawnInputs == { <<208, 215, 208, 216>> }

\* spawn_icbm as the wave pacing calls it: the budget and the table bound it
PacedSpawnIcbm(entry_x, entry_y, target_x, target_y, can_mirv) ==
    /\ UNCHANGED calls
    /\ Call("spawn_icbm", spawn_icbm(G, entry_x, entry_y, target_x, target_y, can_mirv))

InitGame ==
    /\ app_start_wave \in GameInitWaves
    /\ \E thr \in InitThresholds : Is(NewGame(app_start_wave, thr))
    /\ calls = 0
    /\ last = [op |-> "Game", ret |-> "None", from |-> "ATTRACT"]

NextGame ==
    \/ StartWave
    \/ Update
    \/ \E f \in FireInputs : FireFromSilo(f[1], f[2], f[3])
    \/ \E t \in NearestInputs : FireNearest(t[1], t[2])
    \/ \E s \in GameSpawnInputs : PacedSpawnIcbm(s[1], s[2], s[3], s[4], FALSE)

SpecGame == InitGame /\ [][NextGame]_vars

\* ------------------------------------------------------------------------
\* SpecDefense: the DefenseManager of a new game, called directly
\* ------------------------------------------------------------------------
\* fire(silo_index, target, current_active_abms): the indices around 0..2,
\* the counts around the cap
DefenseFireInputs ==
    { <<i, 128, 100, n>> : i \in -1 .. NUM_SILOS, n \in {MAX_ABM_SLOTS - 1, MAX_ABM_SLOTS} }

\* a call on the DefenseManager that leaves the silos sil and returns ret
DefenseCall(op, args, sil, ret) ==
    /\ silos' = sil
    /\ last' = [op |-> op, ret |-> ret, from |-> state, args |-> args]
    /\ UNCHANGED << state, wave_number, icbms_remaining_this_wave, frame_count,
                    player_score, abm_slots, icbm_slots, flier_slot, expl_slots,
                    current_group, cities, app_start_wave, calls >>

DefenseFire(silo_index, target_x, target_y, current_active_abms) ==
    LET f == defences_fire(silos, silo_index, target_x, target_y, current_active_abms)
    IN  DefenseCall("defences.fire",
                    << silo_index, target_x, target_y, current_active_abms >>,
                    f.silos, f.abm)

DefenseSiloDestroy(i) ==
    DefenseCall("silo.destroy", << i >>, [silos EXCEPT ![i].is_destroyed = TRUE], "None")

DefenseRestoreAll ==
    DefenseCall("defences.restore_all", << >>, restore_all(silos), "None")

NextDefense ==
    \/ \E a \in DefenseFireInputs : DefenseFire(a[1], a[2], a[3], a[4])
    \/ \E i \in SiloIdx : DefenseSiloDestroy(i)
    \/ DefenseRestoreAll

SpecDefense == InitGame /\ [][NextDefense]_vars

\* ------------------------------------------------------------------------
\* SpecFire: a game of wave 1 in which the player fires; the centre silo
\* fires as often as its ammo and the table allow
\* ------------------------------------------------------------------------
\* fire_from_silo(silo, target) of the centre silo: one tick of flight
RapidFireInputs == { <<1, 128, 213>> }
\* fire_from_silo(silo, target) of the side silos: one tick of flight
SideFireInputs == { <<0, 32, 217>>, <<2, 224, 217>> }

RapidFire(silo_index, target_x, target_y) ==
    /\ UNCHANGED calls
    /\ Call("fire_from_silo", fire_from_silo(G, silo_index, target_x, target_y))

NextFire ==
    \/ StartWave
    \/ Update
    \/ \E f \in RapidFireInputs : RapidFire(f[1], f[2], f[3])
    \/ \E f \in SideFireInputs : FireFromSilo(f[1], f[2], f[3])
    \/ \E t \in NearestInputs : FireNearest(t[1], t[2])

SpecFire == InitGame /\ [][NextFire]_vars

\* ------------------------------------------------------------------------
\* SpecAbmSlots: the ABM table of a MissileSlotManager, called directly
\* ------------------------------------------------------------------------
\* ABM(silo_index, start, target)
AbmInputs == { NewABM(1, 128, 220, 128, 50) }

\* a call on the MissileSlotManager that leaves the tables abms, icbms and
\* the flier slot fl, and returns ret
SlotsCall(op, args, abms, icbms, fl, ret) ==
    /\ abm_slots' = abms /\ icbm_slots' = icbms /\ flier_slot' = fl
    /\ last' = [op |-> op, ret |-> ret, from |-> state, args |-> args]
    /\ UNCHANGED << state, wave_number, icbms_remaining_this_wave, frame_count,
                    player_score, expl_slots, current_group, cities, silos,
                    app_start_wave, calls >>

SlotsAddAbm(abm) ==
    LET a == add_abm(abm_slots, abm)
    IN  SlotsCall("missiles.add_abm", << abm >>, a.slots, icbm_slots, flier_slot, a.ret)

\* mgr.abm_slots[i].deactivate()
SlotsDeactivateAbm(i) ==
    /\ Occupied(abm_slots[i])
    /\ SlotsCall("abm.deactivate", << i >>, [abm_slots EXCEPT ![i].is_active = FALSE],
                 icbm_slots, flier_slot, "None")

SlotsClearInactive ==
    SlotsCall("missiles.clear_inactive", << >>, clear_inactive_abms(abm_slots),
              clear_inactive_icbms(icbm_slots), ClearSlot(flier_slot), "None")

NextAbmSlots ==
    \/ \E a \in AbmInputs : SlotsAddAbm(a)
    \/ \E i \in AbmIdx : SlotsDeactivateAbm(i)
    \/ SlotsClearInactive

SpecAbmSlots == InitGame /\ [][NextAbmSlots]_vars

\* ------------------------------------------------------------------------
\* SpecIcbmSlots: the ICBM table and the flier slot of a MissileSlotManager,
\* called directly
\* ------------------------------------------------------------------------
\* ICBM(entry, target) and SmartBomb(entry, target, speed)
IcbmInputs == { NewICBM("ICBM", 0, 0, 128, 200, 1, FALSE),
                NewICBM("SmartBomb", 0, 0, 128, 200, 1, FALSE) }
\* the slots whose entity is deactivated
IcbmDeactivateInputs == {0, 3, 7}

SlotsAddIcbm(icbm) ==
    LET a == add_icbm(icbm_slots, icbm)
    IN  SlotsCall("missiles.add_icbm", << icbm >>, abm_slots, a.slots, flier_slot, a.ret)

\* mgr.icbm_slots[i].deactivate()
SlotsDeactivateIcbm(i) ==
    /\ Occupied(icbm_slots[i])
    /\ SlotsCall("icbm.deactivate", << i >>, abm_slots,
                 [icbm_slots EXCEPT ![i].is_active = FALSE], flier_slot, "None")

SlotsSetFlier(f) ==
    LET a == set_flier(flier_slot, f)
    IN  SlotsCall("missiles.set_flier", << f >>, abm_slots, icbm_slots, a.slot, a.ret)

\* mgr.flier_slot.deactivate()
SlotsDeactivateFlier ==
    /\ Occupied(flier_slot)
    /\ SlotsCall("flier.deactivate", << >>, abm_slots, icbm_slots,
                 [flier_slot EXCEPT !.is_active = FALSE], "None")

NextIcbmSlots ==
    \/ \E e \in IcbmInputs : SlotsAddIcbm(e)
    \/ \E i \in IcbmDeactivateInputs : SlotsDeactivateIcbm(i)
    \/ \E f \in FlierInputs : SlotsSetFlier(f)
    \/ SlotsDeactivateFlier
    \/ SlotsClearInactive

SpecIcbmSlots == InitGame /\ [][NextIcbmSlots]_vars

\* ---- one ICBM and its split: the parent is held in icbm_slots[0] ----

\* ICBM(entry_x, entry_y, target_x, target_y, speed, can_mirv): entries
\* around both ends of the altitude range
MirvParentInputs ==
    { << 100, y, 110, 200, 8, cm >> : y \in {120, 127, 128, 159, 160}, cm \in BOOLEAN }

MirvTargetInputs ==
    { << >>,
      << << 50, 200 >>, << 60, 200 >> >>,
      << << 50, 200 >>, << 60, 200 >>, << 70, 200 >> >>,
      << << 50, 200 >>, << 60, 200 >>, << 70, 200 >>, << 80, 200 >> >> }

MirvActiveInputs == {2, 6, 7, 8}

MirvRemainingInputs == {-1, 0, 1, 5}

MirvParent == icbm_slots[0]

\* a call on the parent: last keeps the receiver as it was before the call
MirvCall(op, args, icbm, ret) ==
    /\ icbm_slots' = [icbm_slots EXCEPT ![0] = icbm]
    /\ last' = [op |-> op, ret |-> ret, from |-> state, args |-> args,
                self |-> MirvParent]
    /\ UNCHANGED << state, wave_number, icbms_remaining_this_wave, frame_count,
                    player_score, expl_slots, current_group, cities, silos,
                    app_start_wave, calls, abm_slots, flier_slot >>

MirvCreate(p) ==
    MirvCall("ICBM", p, NewICBM("ICBM", p[1], p[2], p[3], p[4], p[5], p[6]), "None")

MirvStep ==
    /\ Occupied(MirvParent)
    /\ MirvCall("icbm.update", << >>, ICBM_update(MirvParent), "None")

MirvCheck(active_icbm_count, remaining_wave_icbms, any_above_high) ==
    /\ Occupied(MirvParent)
    /\ MirvCall("icbm.check_mirv_conditions",
                << active_icbm_count, remaining_wave_icbms, any_above_high >>,
                MirvParent,
                check_mirv_conditions(MirvParent, active_icbm_count,
                                      remaining_wave_icbms, any_above_high))

MirvSplit(targets, active_icbm_count, remaining_wave_icbms) ==
    /\ Occupied(MirvParent)
    /\ LET r == mirv(MirvParent, targets, active_icbm_count, remaining_wave_icbms)
       IN  MirvCall("icbm.mirv", << targets, active_icbm_count, remaining_wave_icbms >>,
                    r.icbm, r.children)

NextMirv ==
    \/ \E p \in MirvParentInputs : MirvCreate(p)
    \/ MirvStep
    \/ \E a \in MirvActiveInputs, r \in MirvRemainingInputs, h \in BOOLEAN : MirvCheck(a, r, h)
    \/ \E t \in MirvTargetInputs, a \in MirvActiveInputs, r \in MirvRemainingInputs :
           MirvSplit(t, a, r)

SpecMirv == InitGame /\ [][NextMirv]_vars

\* ---- one ABM in abm_slots[0] and one ICBM or smart bomb in icbm_slots[0],
\* each built once and then updated or deactivated ----

\* ABM(silo_index, start_x, start_y, target_x, target_y): up and to the
\* right, up and to the left, straight up, and at the silo itself
FlightAbmInputs ==
    { << 0, 32, 220, 40, 200 >>, << 2, 224, 220, 210, 205 >>,
      << 1, 128, 220, 128, 190 >>, << 0, 32, 220, 32, 220 >> }

\* ICBM or SmartBomb (entry_x, entry_y, target_x, target_y, speed)
FlightIcbmInputs ==
    { << "ICBM", 100, 0, 100, 40, 8 >>, << "ICBM", 100, 0, 80, 30, 8 >>,
      << "ICBM", 100, 40, 100, 40, 1 >>, << "SmartBomb", 100, 0, 110, 40, 8 >> }

\* explosion_centers passed to detect_explosions
FlightCenterInputs == { << >>, << << 110, 20 >> >> }

FlightAbm == abm_slots[0]
FlightIcbm == icbm_slots[0]

\* a call on one of the two entities: last keeps the receiver as it was
FlightCall(op, args, self, abm, icbm) ==
    /\ abm_slots' = [abm_slots EXCEPT ![0] = abm]
    /\ icbm_slots' = [icbm_slots EXCEPT ![0] = icbm]
    /\ last' = [op |-> op, ret |-> "None", from |-> state, args |-> args, self |-> self]
    /\ UNCHANGED << state, wave_number, icbms_remaining_this_wave, frame_count,
                    player_score, expl_slots, current_group, cities, silos,
                    app_start_wave, calls, flier_slot >>

FlightNewAbm(a) ==
    /\ ~Occupied(FlightAbm)
    /\ FlightCall("ABM", a, None, NewABM(a[1], a[2], a[3], a[4], a[5]), FlightIcbm)

FlightNewIcbm(i) ==
    /\ ~Occupied(FlightIcbm)
    /\ FlightCall(i[1], i, None, FlightAbm, NewICBM(i[1], i[2], i[3], i[4], i[5], i[6], FALSE))

FlightAbmUpdate ==
    /\ Occupied(FlightAbm)
    /\ FlightCall("abm.update", << >>, FlightAbm, ABM_update(FlightAbm), FlightIcbm)

FlightIcbmUpdate ==
    /\ Occupied(FlightIcbm)
    /\ FlightCall("icbm.update", << >>, FlightIcbm, FlightAbm, IcbmSlotUpdate(FlightIcbm))

FlightAbmDeactivate ==
    /\ Occupied(FlightAbm)
    /\ FlightCall("abm.deactivate", << >>, FlightAbm,
                  [FlightAbm EXCEPT !.is_active = FALSE], FlightIcbm)

FlightIcbmDeactivate ==
    /\ Occupied(FlightIcbm)
    /\ FlightCall("icbm.deactivate", << >>, FlightIcbm, FlightAbm,
                  [FlightIcbm EXCEPT !.is_active = FALSE])

FlightDetect(centers) ==
    /\ Occupied(FlightIcbm) /\ FlightIcbm.kind = "SmartBomb"
    /\ FlightCall("bomb.detect_explosions", << centers >>, FlightIcbm, FlightAbm,
                  detect_explosions(FlightIcbm, centers))

NextFlight ==
    \/ \E a \in FlightAbmInputs : FlightNewAbm(a)
    \/ \E i \in FlightIcbmInputs : FlightNewIcbm(i)
    \/ FlightAbmUpdate
    \/ FlightIcbmUpdate
    \/ FlightAbmDeactivate
    \/ FlightIcbmDeactivate
    \/ \E c \in FlightCenterInputs : FlightDetect(c)

SpecFlight == InitGame /\ [][NextFlight]_vars

\* the caller goes on updating both entities (the game keeps ticking)
SpecFlightFair ==
    SpecFlight /\ WF_vars(FlightAbmUpdate) /\ WF_vars(FlightIcbmUpdate)

\* ---- the fixed-point functions, called on their own ----

\* coordinates on both sides of zero, near and beyond the cap of 255
MathCoordInputs == {-500, -100, -3, -1, 0, 3, 7, 100, 500}

MathSpeedInputs == {1, 3}

\* the arguments (x1, y1, x2, y2, speed) are drawn first, then a function
\* is called on them
InitMath ==
    /\ app_start_wave \in GameInitWaves
    /\ \E thr \in InitThresholds : Is(NewGame(app_start_wave, thr))
    /\ calls = 0
    /\ \E x1, y1, x2, y2 \in MathCoordInputs, speed \in MathSpeedInputs :
          last = [op |-> "arguments", ret |-> "None", from |-> "ATTRACT",
                  args |-> << x1, y1, x2, y2, speed >>]

\* a call of a module-level function: nothing of the game changes
MathCall(op, ret) ==
    /\ last.op = "arguments"
    /\ last' = [last EXCEPT !.op = op, !.ret = ret]
    /\ UNCHANGED gvars
    /\ UNCHANGED << app_start_wave, calls >>

MathDistance ==
    MathCall("distance_approx",
             distance_approx(last.args[1], last.args[2], last.args[3], last.args[4]))

MathFunctionsDistance ==
    MathCall("functions.distance_approx",
             functions_distance_approx(last.args[1], last.args[2], last.args[3], last.args[4]))

MathIncrements ==
    MathCall("compute_increments",
             compute_increments(last.args[1], last.args[2], last.args[3], last.args[4],
                                last.args[5]))

NextMath ==
    \/ MathDistance
    \/ MathFunctionsDistance
    \/ MathIncrements

SpecMath == InitMath /\ [][NextMath]_vars

\* ---- the octagon functions, called on their own ----

\* the radii: none, those without a cut (1, 2), the first with one (3), and
\* EXPLOSION_MAX_RADIUS
OctagonRadiusInputs == {0, 1, 2, 3, 8, 13}
\* the point, as offsets from the center: through the octagon and around it
OctagonOffsetInputs == -14 .. 14
OctagonCenterInputs == { << 100, 100 >>, << 0, 50 >> }

\* the arguments (px, py, cx, cy, radius) are drawn first, then a function
\* is called on them
InitOctagon ==
    /\ app_start_wave \in GameInitWaves
    /\ \E thr \in InitThresholds : Is(NewGame(app_start_wave, thr))
    /\ calls = 0
    /\ \E c \in OctagonCenterInputs, ox, oy \in OctagonOffsetInputs,
          radius \in OctagonRadiusInputs :
          last = [op |-> "arguments", ret |-> "None", from |-> "ATTRACT",
                  args |-> << c[1] + ox, c[2] + oy, c[1], c[2], radius >>]

OctagonPoints ==
    MathCall("octagon_points",
             octagon_points(last.args[3], last.args[4], last.args[5]))

OctagonTest ==
    MathCall("point_in_octagon",
             point_in_octagon(last.args[1], last.args[2], last.args[3], last.args[4],
                              last.args[5]))

NextOctagon ==
    \/ OctagonPoints
    \/ OctagonTest

SpecOctagon == InitOctagon /\ [][NextOctagon]_vars

\* ---- one smart bomb in icbm_slots[0], told of explosions and updated ----

\* SmartBomb(entry_x, entry_y, target_x, target_y, speed): down to the
\* right and down to the left, about six pixels a tick on each axis
EvadeBombInputs == { << 100, 0, 140, 40, 8 >>, << 100, 0, 60, 40, 8 >> }

\* explosion_centers: none, one a pixel to the right, one ahead, and two
EvadeCenterInputs ==
    { << >>, << << 101, 0 >> >>, << << 110, 20 >> >>,
      << << 90, 20 >>, << 101, 2 >> >> }

EvadeNew(b) ==
    FlightCall("SmartBomb", b, None, FlightAbm,
               NewICBM("SmartBomb", b[1], b[2], b[3], b[4], b[5], FALSE))

EvadeDetect(centers) ==
    /\ Occupied(FlightIcbm)
    /\ FlightCall("bomb.detect_explosions", << centers >>, FlightIcbm, FlightAbm,
                  detect_explosions(FlightIcbm, centers))

EvadeUpdate ==
    /\ Occupied(FlightIcbm)
    /\ FlightCall("bomb.update", << >>, FlightIcbm, FlightAbm, SmartBomb_update(FlightIcbm))

NextEvade ==
    \/ \E b \in EvadeBombInputs : EvadeNew(b)
    \/ \E c \in EvadeCenterInputs : EvadeDetect(c)
    \/ EvadeUpdate

SpecEvade == InitGame /\ [][NextEvade]_vars

\* ---- the DefenseManager called directly, fire_nearest included ----

\* fire_nearest(target_x, target_y, current_active_abms): at a side silo,
\* midway between two silos (80 and 176), and with the table full
NearestFireInputs ==
    { << x, 100, n >> : x \in {32, 80, 176, 224}, n \in {0, MAX_ABM_SLOTS} }

\* a call on the DefenseManager: last keeps the silos as they were before
NearestCall(op, args, sil, ret) ==
    /\ silos' = sil
    /\ last' = [op |-> op, ret |-> ret, from |-> state, args |-> args, self |-> silos]
    /\ UNCHANGED << state, wave_number, icbms_remaining_this_wave, frame_count,
                    player_score, abm_slots, icbm_slots, flier_slot, expl_slots,
                    current_group, cities, app_start_wave, calls >>

NearestFire(target_x, target_y, current_active_abms) ==
    LET f == defences_fire_nearest(silos, target_x, target_y, current_active_abms)
    IN  NearestCall("defences.fire_nearest", << target_x, target_y, current_active_abms >>,
                    f.silos, f.abm)

NearestSiloDestroy(i) ==
    NearestCall("silo.destroy", << i >>, [silos EXCEPT ![i].is_destroyed = TRUE], None)

NearestRestoreAll ==
    NearestCall("defences.restore_all", << >>, restore_all(silos), None)

NextNearest ==
    \/ \E a \in NearestFireInputs : NearestFire(a[1], a[2], a[3])
    \/ \E i \in SiloIdx : NearestSiloDestroy(i)
    \/ NearestRestoreAll

SpecNearest == InitGame /\ [][NextNearest]_vars

\* ------------------------------------------------------------------------
\* SpecCities: the CityManager of a new game, called directly
\* ------------------------------------------------------------------------
\* destroy_city(index): the indices around 0..5
CityIndexInputs == -1 .. NUM_CITIES_DEFAULT
\* destroy_city_at(x, y): beside the first city, beside the last, over none
CityAtInputs == { <<58, 210>>, <<208, 226>>, <<128, 100>> }
\* check_bonus(current_score)
CityScoreInputs == { 500, 1000 }

\* destructions that succeeded since the last CityManager.start_wave
Wins == IF "wins" \in DOMAIN last THEN last.wins ELSE 0

\* a call on the CityManager that leaves it as cm and returns ret
CityCall(op, args, cm, ret) ==
    /\ cities' = cm
    /\ last' = [op |-> op, ret |-> ret, from |-> state, args |-> args,
                wins |-> IF op = "cities.start_wave" THEN 0
                         ELSE IF op \in {"cities.destroy_city", "cities.destroy_city_at"}
                                 /\ ret = TRUE
                              THEN Wins + 1
                              ELSE Wins]
    /\ UNCHANGED << state, wave_number, icbms_remaining_this_wave, frame_count,
                    player_score, abm_slots, icbm_slots, flier_slot, expl_slots,
                    current_group, silos, app_start_wave, calls >>

CityStartWave == CityCall("cities.start_wave", << >>, cities_start_wave(cities), "None")

CityDestroyCity(index) ==
    LET a == destroy_city(cities, index)
    IN  CityCall("cities.destroy_city", << index >>, a.cm, a.ret)

CityDestroyCityAt(x, y) ==
    LET a == destroy_city_at(cities, x, y, DESTROY_RADIUS)
    IN  CityCall("cities.destroy_city_at", << x, y >>, a.cm, a.ret)

CityCheckBonus(current_score) ==
    LET a == check_bonus(cities, current_score)
    IN  CityCall("cities.check_bonus", << current_score >>, a.cm, a.awarded)

CityReplaceRandomCrater ==
    \E idx \in (IF craters(cities) = {} THEN {-1} ELSE craters(cities)) :
        LET a == replace_random_crater(cities, idx)
        IN  CityCall("cities.replace_random_crater", << >>, a.cm, a.ret)

NextCities ==
    \/ CityStartWave
    \/ \E i \in CityIndexInputs : CityDestroyCity(i)
    \/ \E p \in CityAtInputs : CityDestroyCityAt(p[1], p[2])
    \/ \E sc \in CityScoreInputs : CityCheckBonus(sc)
    \/ CityReplaceRandomCrater

SpecCities == InitGame /\ [][NextCities]_vars

\* ------------------------------------------------------------------------
\* SpecBonus: the bonus bank of a CityManager, its threshold set by the caller
\* ------------------------------------------------------------------------
\* mgr.bonus_threshold = t: none, every point, and a round number
BonusThresholdInputs == { 0, 1, 100 }
\* check_bonus(current_score): scores that rise and that fall, 256 among them
BonusScoreInputs == { 0, 100, 256, 300, 513 }

\* mgr.bonus_threshold = t
CitySetBonusThreshold(t) ==
    CityCall("cities.bonus_threshold", << t >>, [cities EXCEPT !.bonus_threshold = t], "None")

NextBonus ==
    \/ \E t \in BonusThresholdInputs : CitySetBonusThreshold(t)
    \/ \E sc \in BonusScoreInputs : CityCheckBonus(sc)

SpecBonus == InitGame /\ [][NextBonus]_vars

\* ---- tournament mode: MissileCommandApp.init has set bonus_threshold to 0 ----

\* check_bonus(current_score) called on the game's cities: up to twice the
\* default threshold
TournamentScoreInputs == {0, 750, 10000, 20000}

InitTournament ==
    /\ app_start_wave \in GameInitWaves
    /\ Is(NewGame(app_start_wave, 0))
    /\ calls = 0
    /\ last = [op |-> "Game", ret |-> "None", from |-> "ATTRACT"]

NextTournament ==
    \/ StartWave
    \/ Update
    \/ \E s \in GameSpawnInputs : PacedSpawnIcbm(s[1], s[2], s[3], s[4], FALSE)
    \/ \E sc \in TournamentScoreInputs : CityCheckBonus(sc)

SpecTournament == InitTournament /\ [][NextTournament]_vars

\* ------------------------------------------------------------------------
\* SpecExplosion: one Explosion, constructed and stepped by its caller; it
\* is held at index 0 of the explosion table
\* ------------------------------------------------------------------------
\* Explosion(max_radius, expand_rate, hold_frames, contract_rate)
ExplosionParamInputs ==
    { << m, er, h, cr >> : m \in {1, 5}, er \in 1 .. 3, h \in {0, 1, 3}, cr \in 1 .. 3 }

\* a call on the explosions that leaves the table sl and the group cg;
\* steps is the history of update() calls: for the one explosion of
\* SpecExplosion their number, for the manager of SpecExplosions the groups
\* that its calls processed, in order
ExplCall(op, args, sl, cg, ret, steps) ==
    /\ expl_slots' = sl /\ current_group' = cg
    /\ last' = [op |-> op, ret |-> ret, from |-> state, args |-> args, steps |-> steps]
    /\ UNCHANGED << state, wave_number, icbms_remaining_this_wave, frame_count,
                    player_score, abm_slots, icbm_slots, flier_slot, cities, silos,
                    app_start_wave, calls >>

\* exp = Explosion(center_x=100, center_y=100, ...)
ExplosionCreate(p) ==
    /\ expl_slots[0] = None
    /\ ExplCall("Explosion", p,
                [expl_slots EXCEPT ![0] = NewExplosion(100, 100, p[1], p[2], p[3], p[4])],
                current_group, "None", 0)

\* exp.update()
ExplosionStep ==
    /\ expl_slots[0] # None
    /\ last.steps < MaxSteps
    /\ ExplCall("explosion.update", << >>,
                [expl_slots EXCEPT ![0] = Explosion_update(@)],
                current_group, "None", last.steps + 1)

NextExplosion ==
    \/ \E p \in ExplosionParamInputs : ExplosionCreate(p)
    \/ ExplosionStep

SpecExplosion == InitGame /\ [][NextExplosion]_vars

\* ---- one Explosion with parameters down to zero ----

\* Explosion(max_radius, expand_rate, hold_frames, contract_rate)
ExplosionEdgeInputs ==
    { << m, er, h, cr >> : m \in {0, 1, 5}, er \in {0, 1, 3}, h \in {0, 2},
                           cr \in {0, 1, 3} }

NextRadius ==
    \/ \E p \in ExplosionEdgeInputs : ExplosionCreate(p)
    \/ ExplosionStep

SpecRadius == InitGame /\ [][NextRadius]_vars

\* ------------------------------------------------------------------------
\* SpecExplosions: the ExplosionManager of a new game, called directly
\* ------------------------------------------------------------------------
\* an explosion that is DONE at its third step
ShortExplosionInputs == { NewExplosion(100, 100, 1, 1, 0, 1) }
\* the slot whose explosion is stepped by the caller
ExplosionStepInputs == { 5 }

\* the groups processed by the ExplosionManager.update calls so far
Groups == IF "steps" \in DOMAIN last THEN last.steps ELSE << >>

ExplAdd(e) ==
    LET a == explosions_add(expl_slots, e)
    IN  ExplCall("explosions.add", << e >>, a.slots, current_group, a.ret, Groups)

ExplUpdate ==
    /\ Len(Groups) < MaxUpdates
    /\ LET u == explosions_update(expl_slots, current_group)
       IN  ExplCall("explosions.update", << >>, u.slots, u.current_group, u.updated,
                    Groups \o << current_group >>)

\* mgr.slots[i].update()
ExplStepAt(i) ==
    /\ expl_slots[i] # None
    /\ ExplCall("explosions.slots.update", << i >>,
                [expl_slots EXCEPT ![i] = Explosion_update(@)], current_group, "None", Groups)

NextExplosions ==
    \/ \E e \in ShortExplosionInputs : ExplAdd(e)
    \/ ExplUpdate
    \/ \E i \in ExplosionStepInputs : ExplStepAt(i)

SpecExplosions == InitGame /\ [][NextExplosions]_vars

\* ------------------------------------------------------------------------
\* SpecCollisions: a game whose entities fly through explosions, above the
\* line of altitude 33 and below it
\* ------------------------------------------------------------------------
\* Explosion(...) around the top of the screen and above the left silo
CollisionExplosionInputs ==
    { NewExplosion(48, 21, 13, 13, 1, 13), NewExplosion(32, 207, 13, 13, 1, 13) }
\* entry and target of an ICBM or smart bomb that stays above the line
HighEntityInputs == { << 48, 10, 48, 30 >> }
\* a flier above the line
HighFlierInputs == { NewFlier(21, 1, 1, 47) }
\* fire_from_silo(silo_index, target_x, target_y): a flight of seven ticks
LongFireInputs == { << 0, 32, 200 >> }

NextCollisions ==
    \/ StartWave
    \/ Update
    \/ \E e \in CollisionExplosionInputs : AddExplosion(e)
    \/ \E s \in HighEntityInputs : SpawnIcbm(s[1], s[2], s[3], s[4], FALSE)
    \/ \E b \in HighEntityInputs : AddSmartBomb(b[1], b[2], b[3], b[4], 1)
    \/ \E f \in HighFlierInputs : SetFlier(f)
    \/ \E f \in LongFireInputs : FireFromSilo(f[1], f[2], f[3])

SpecCollisions == InitGame /\ [][NextCollisions]_vars

\* ---- a game under siege: ICBMs next to four cities, shot down there by an
\* injected explosion that covers them all ----

\* spawn_icbm(entry, target): one pixel above cities 0, 1, 2 and 3
SiegeSpawnInputs ==
    { << 48, 214, 48, 216 >>, << 72, 214, 72, 216 >>,
      << 96, 214, 96, 216 >>, << 160, 214, 160, 216 >> }

\* Explosion(center, max_radius, expand_rate, hold_frames, contract_rate):
\* at full radius after its first update, from x = 44 to x = 164
SiegeExplosionInputs == { NewExplosion(104, 214, 60, 60, 1, 60) }

SiegeFireInputs == { << 1, 128, 213 >> }

\* start_wave() counts against MaxCalls here: each wave adds to the score
SiegeStartWave == Counted("start_wave", [g |-> start_wave(G), ret |-> "None"])

SiegeUpdate ==
    /\ state = "RUNNING" => frame_count < MaxSiegeFrames
    /\ UNCHANGED calls
    /\ Call("update", update(G))

SiegeSpawn(entry_x, entry_y, target_x, target_y) ==
    /\ icbms_for_wave(wave_number) - icbms_remaining_this_wave < MaxSiegeSpawns
    /\ PacedSpawnIcbm(entry_x, entry_y, target_x, target_y, FALSE)

\* game.explosions.add(Explosion(...))
SiegeAddExplosion(e) ==
    /\ Cardinality({i \in ExplIdx : Occupied(expl_slots[i])}) < MaxSiegeExplosions
    /\ UNCHANGED calls
    /\ LET a == explosions_add(expl_slots, e)
       IN  Call("explosions.add", [g |-> [G EXCEPT !.expl_slots = a.slots], ret |-> a.ret])

NextSiege ==
    \/ SiegeStartWave
    \/ SiegeUpdate
    \/ \E s \in SiegeSpawnInputs : SiegeSpawn(s[1], s[2], s[3], s[4])
    \/ \E e \in SiegeExplosionInputs : SiegeAddExplosion(e)
    \/ \E f \in SiegeFireInputs : FireFromSilo(f[1], f[2], f[3])
    \/ \E t \in NearestInputs : FireNearest(t[1], t[2])

SpecSiege == InitGame /\ [][NextSiege]_vars

\* ------------------------------------------------------------------------
\* SpecDrain: one wave of a new game played to its end.  The wave pacing
\* spawns until the budget is spent, explosions are injected and ABMs fired
\* (MaxCalls of them together), and update() is called again and again.
\* ------------------------------------------------------------------------
\* update() is not called on a RUNNING game to which something may still
\* be added and whose frame_count is MaxIdleFrames
MaxIdleFrames == 3
\* update() is not called on a RUNNING game whose frame_count is
\* MaxDrainFrames
MaxDrainFrames == 30
\* the last MaxLateSpawns ICBMs of the wave are drawn from both inputs
MaxLateSpawns == 2
\* spawn_icbm(entry, target): one tick of flight for the opening ICBMs of
\* the wave, one tick or six ticks down on city 0 for its last ones
DrainSpawnInputs ==
    IF icbms_remaining_this_wave > MaxLateSpawns
    THEN { <<208, 215, 208, 216>> }
    ELSE { <<208, 215, 208, 216>>, <<48, 210, 48, 216>> }
\* Explosion(center, max_radius, expand_rate, hold_frames, contract_rate):
\* a quick one over city 0 and a slow one above the collision line
DrainExplosionInputs == { NewExplosion(48, 215, 13, 13, 1, 13),
                          NewExplosion(48, 21, 2, 1, 1, 2) }

\* the wave has budget left or the harness has additions left
DrainPending == icbms_remaining_this_wave > 0 \/ calls < MaxCalls

DrainStartWave ==
    /\ state = "ATTRACT"
    /\ UNCHANGED calls
    /\ Call("start_wave", [g |-> start_wave(G), ret |-> "None"])

DrainUpdate ==
    /\ state = "RUNNING" =>
          /\ frame_count < MaxDrainFrames
          /\ DrainPending => frame_count < MaxIdleFrames
    /\ UNCHANGED calls
    /\ Call("update", update(G))

\* the bool a call returns, as Python prints it
Shown(r) == [g |-> r.g, ret |-> IF r.ret THEN "True" ELSE "False"]

DrainSpawn(entry_x, entry_y, target_x, target_y) ==
    /\ UNCHANGED calls
    /\ Call("spawn_icbm",
            Shown(spawn_icbm(G, entry_x, entry_y, target_x, target_y, FALSE)))

DrainAddExplosion(e) ==
    LET a == explosions_add(expl_slots, e)
    IN  Counted("explosions.add",
                [g |-> [G EXCEPT !.expl_slots = a.slots],
                 ret |-> IF a.ret THEN "True" ELSE "False"])

DrainFireNearest(target_x, target_y) ==
    Counted("fire_nearest", Shown(fire_nearest(G, target_x, target_y)))

NextDrain ==
    \/ DrainStartWave
    \/ DrainUpdate
    \/ \E s \in DrainSpawnInputs : DrainSpawn(s[1], s[2], s[3], s[4])
    \/ \E e \in DrainExplosionInputs : DrainAddExplosion(e)
    \/ \E t \in NearestInputs : DrainFireNearest(t[1], t[2])

\* a tick: the step of update() on a RUNNING game, the one step that
\* advances frame_count
DrainTick ==
    /\ state = "RUNNING"
    /\ frame_count < MaxDrainFrames
    /\ DrainPending => frame_count < MaxIdleFrames
    /\ frame_count' = frame_count + 1

\* the frame loop keeps calling update() while the game runs
SpecDrain == InitGame /\ [][NextDrain]_vars /\ WF_frame_count(DrainTick)

\* ------------------------------------------------------------------------
\* Properties of the game under Spec
\* ------------------------------------------------------------------------
\* the step is a call of op
Called(op) == last'.op = op

\* the step is a tick of a RUNNING game
RunningTick == Called("update") /\ state = "RUNNING"

StateChanges ==
    { <<"ATTRACT", "RUNNING">>, <<"RUNNING", "WAVE_END">>,
      <<"WAVE_END", "RUNNING">>, <<"RUNNING", "GAME_OVER">> }

C2_IdleUpdateIsNoOp ==
    [][(Called("update") /\ state \in {"ATTRACT", "WAVE_END", "GAME_OVER"}) =>
         (last'.ret = state /\ UNCHANGED gvars)]_vars

\* C2 witness: update was called in ATTRACT with an interceptor in flight
C2_IdleUpdateWithAbmInFlight ==
    /\ last.op = "update" /\ last.from = "ATTRACT" /\ state = "ATTRACT"
    /\ active_abm_count_of(abm_slots) > 0

\* the active ICBM slot i reaches its target in this tick
Arrives(i) == ActiveIn(icbm_slots[i]) /\ ~IcbmSlotUpdate(icbm_slots[i]).is_active

\* city c stands within the destruction radius of where slot i is after its move
NearStandingCity(i, c) ==
    LET m == IcbmSlotUpdate(icbm_slots[i])
    IN  /\ ~cities.cities[c]
        /\ Abs(city_x(c) - current_x(m)) <= DESTROY_RADIUS
        /\ Abs(city_y(c) - current_y(m)) <= DESTROY_RADIUS

\* C3 as the claim states it: in a RUNNING tick an ICBM-class entity that
\* reaches its target within the destruction radius of a standing city, with
\* fewer than 3 cities destroyed this wave, destroys that city in the tick.
C3_ArrivalDestroysCity ==
    [][RunningTick =>
         \A i \in IcbmIdx, c \in CityIdx :
            (/\ Arrives(i)
             /\ NearStandingCity(i, c)
             /\ cities.cities_destroyed_this_wave < MAX_CITIES_DESTROYED_PER_WAVE)
            => cities'.cities[c]]_vars

\* C4 as the claim states it: a tick in which no ICBM-class entity reaches
\* its target destroys no city and leaves cities_destroyed_this_wave alone,
\* whatever is shot down in it.
C4_ShotDownDestroysNothing ==
    [][(RunningTick /\ \A i \in IcbmIdx : ~Arrives(i)) =>
         /\ \A c \in CityIdx : cities'.cities[c] => cities.cities[c]
         /\ cities'.cities_destroyed_this_wave = cities.cities_destroyed_this_wave]_vars

\* the game of this tick after its steps 1 to 6
AfterStep6 == update_pipeline(G)

Standing(cm) == Cardinality({c \in CityIdx : ~cm.cities[c]})
AmmoLeft(sil) == sil[0].abm_count + sil[1].abm_count + sil[2].abm_count

\* the wave-end conditions of step 7, on the game g
WaveEndConditions(g) ==
    /\ Standing(g.cities) > 0 \/ g.cities.bonus_cities > 0
    /\ g.icbms_remaining_this_wave <= 0
    /\ \A i \in IcbmIdx : ~ActiveIn(g.icbm_slots[i])
    /\ \A i \in ExplIdx : ~ActiveIn(g.expl_slots[i])

\* C5: a RUNNING tick ends the wave exactly when, after its steps 1 to 6,
\* some city is standing or banked, the launch budget is exhausted, and no
\* ICBM-class entity and no explosion is active; it then adds exactly
\* 100 * standing cities + 5 * interceptors left to the score, adds 1 to
\* wave_number and sets WAVE_END; otherwise the score is that of step 6, the
\* state is not WAVE_END and wave_number is unchanged.
C5_WaveEndExactly ==
    [][RunningTick =>
         LET g == AfterStep6
         IN  IF WaveEndConditions(g)
             THEN /\ state' = "WAVE_END"
                  /\ wave_number' = wave_number + 1
                  /\ player_score' = player_score + 100 * Standing(g.cities)
                                                  + 5 * AmmoLeft(g.silos)
             ELSE /\ state' # "WAVE_END"
                  /\ wave_number' = wave_number
                  /\ player_score' = g.player_score]_vars

\* C5 witness: a tick has ended a wave with 5 cities standing and 29
\* interceptors left, for a bonus of 645
C5_WaveEndedWithBonus ==
    /\ last.op = "update" /\ last.from = "RUNNING" /\ state = "WAVE_END"
    /\ Standing(cities) = 5 /\ AmmoLeft(silos) = 29
    /\ player_score = 645

\* C6: a RUNNING tick that leaves no city standing and none banked after its
\* steps 1 to 6 sets GAME_OVER, adds no wave-end bonus and leaves wave_number
\* unchanged, whatever the budget and the active entities.
C6_GameOverSkipsWaveEnd ==
    [][(/\ RunningTick
        /\ Standing(AfterStep6.cities) = 0
        /\ AfterStep6.cities.bonus_cities = 0) =>
         /\ state' = "GAME_OVER"
         /\ wave_number' = wave_number
         /\ player_score' = AfterStep6.player_score]_vars

\* C6 witness: the game is over after a tick that met every wave-end
\* condition but the cities
C6_GameOverWithWaveExhausted ==
    /\ last.op = "update" /\ last.from = "RUNNING" /\ state = "GAME_OVER"
    /\ icbms_remaining_this_wave <= 0
    /\ \A i \in IcbmIdx : ~ActiveIn(icbm_slots[i])
    /\ \A i \in ExplIdx : ~ActiveIn(expl_slots[i])
    /\ AmmoLeft(silos) > 0

\* the ICBM table of this tick after step 1, and the explosions step 2 updates
MovedIcbms == clear_inactive_icbms(update_all_icbms(icbm_slots))
UpdatedExplosions == explosions_update(expl_slots, current_group).updated

\* (x, y) is within the octagon of the active explosion e
InsideOctagon(e, x, y) ==
    /\ e.is_active /\ e.current_radius > 0
    /\ LET dx == Abs(x - e.center_x)
           dy == Abs(y - e.center_y)
       IN  /\ dx <= e.current_radius /\ dy <= e.current_radius
           /\ dx + dy <= e.current_radius + ((e.current_radius * 3) \div 8)

\* the explosions updated in this tick that hold the moved entity of slot i
HoldersOf(i) ==
    { j \in 1 .. Len(UpdatedExplosions) :
        InsideOctagon(UpdatedExplosions[j], current_x(MovedIcbms[i]),
                      current_y(MovedIcbms[i])) }

PointsOf(m) == IF m.kind = "SmartBomb" THEN 125 ELSE 25

RECURSIVE SumPoints(_)
SumPoints(S) ==
    IF S = {} THEN 0
    ELSE LET i == CHOOSE j \in S : TRUE
         IN  PointsOf(MovedIcbms[i]) + SumPoints(S \ {i})

\* the flier of this tick is hit
FlierIsHit == FlierHit(ClearSlot(update_all_flier(flier_slot)), UpdatedExplosions)

\* the slots in Hit are inactive after the tick, and the tick scored each once
HitsScoredOnce(Hit) ==
    /\ \A i \in Hit : Occupied(icbm_slots'[i]) /\ ~icbm_slots'[i].is_active
    /\ Hit # {} => player_score' = player_score + SumPoints(Hit)
                                   + (IF FlierIsHit THEN POINTS_PER_FLIER ELSE 0)

\* C7 as the claim states it: every active ICBM-class entity within an
\* explosion of the group processed in a RUNNING tick is deactivated in the
\* tick and scores 125 (smart bomb) or 25 once.
C7_EveryEntityInsideIsHit ==
    [][RunningTick =>
         HitsScoredOnce({ i \in IcbmIdx :
                            ActiveIn(MovedIcbms[i]) /\ HoldersOf(i) # {} })]_vars

\* C7, amended: every active ICBM-class entity at y >= 33 within an
\* explosion of the group processed in a RUNNING tick is deactivated in the
\* tick and scores 125 (smart bomb) or 25, once however many explosions of
\* the group hold it.
C7_EntityInsideAtCollisionAltitudeIsHit ==
    [][RunningTick =>
         HitsScoredOnce({ i \in IcbmIdx :
                            /\ ActiveIn(MovedIcbms[i]) /\ HoldersOf(i) # {}
                            /\ current_y(MovedIcbms[i]) >= 33 })]_vars

\* C7 witness: a smart bomb held by two explosions of the group was shot
\* down for 125
C7_SmartBombInTwoExplosionsScoredOnce ==
    /\ last.op = "update" /\ last.from = "RUNNING" /\ player_score = 125
    /\ \E i \in IcbmIdx :
          /\ Occupied(icbm_slots[i]) /\ ~icbm_slots[i].is_active
          /\ icbm_slots[i].kind = "SmartBomb"
          /\ Cardinality({ j \in ExplIdx :
                             /\ Occupied(expl_slots[j])
                             /\ InsideOctagon(expl_slots[j], current_x(icbm_slots[i]),
                                              current_y(icbm_slots[i])) }) = 2

\* C8: after start_wave, in whatever state it was called, the state is
\* RUNNING, each silo holds 10 interceptors and is not destroyed, each city
\* stands and none is counted destroyed this wave, the 8 ABM slots, the 8
\* ICBM slots, the flier slot and the 20 explosion slots are empty, and the
\* launch budget is min(8 + 2 * wave_number, 30).
C8_StartWaveResets ==
    last.op = "start_wave" =>
        /\ state = "RUNNING"
        /\ DOMAIN silos = 0 .. 2
        /\ \A i \in 0 .. 2 : silos[i].abm_count = 10 /\ ~silos[i].is_destroyed
        /\ \A c \in CityIdx : ~cities.cities[c]
        /\ cities.cities_destroyed_this_wave = 0
        /\ DOMAIN abm_slots = 0 .. 7 /\ \A i \in 0 .. 7 : abm_slots[i] = None
        /\ DOMAIN icbm_slots = 0 .. 7 /\ \A i \in 0 .. 7 : icbm_slots[i] = None
        /\ flier_slot = None
        /\ DOMAIN expl_slots = 0 .. 19 /\ \A i \in 0 .. 19 : expl_slots[i] = None
        /\ icbms_remaining_this_wave =
             (IF 8 + 2 * wave_number < 30 THEN 8 + 2 * wave_number ELSE 30)

\* C8 witness: start_wave was called in GAME_OVER at a wave whose budget the
\* cap cuts
C8_StartWaveAfterGameOverCapped ==
    /\ last.op = "start_wave" /\ last.from = "GAME_OVER"
    /\ 8 + 2 * wave_number > 30 /\ icbms_remaining_this_wave = 30

\* ------------------------------------------------------------------------
\* Properties of spawn_icbm under SpecGame
\* ------------------------------------------------------------------------
\* C9: spawn_icbm returns False and changes nothing of the game when the
\* launch budget is exhausted or every ICBM slot holds an active entity;
\* otherwise it returns True, puts one active ICBM into one slot that held
\* none, leaves the other slots and the rest of the game alone and takes
\* exactly 1 from the budget.  No other call lowers the budget.
C9_SpawnIcbm ==
    [][/\ Called("spawn_icbm") =>
            IF \/ icbms_remaining_this_wave <= 0
               \/ \A i \in 0 .. 7 : ActiveIn(icbm_slots[i])
            THEN last'.ret = FALSE /\ UNCHANGED gvars
            ELSE /\ last'.ret = TRUE
                 /\ icbms_remaining_this_wave' = icbms_remaining_this_wave - 1
                 /\ \E i \in 0 .. 7 :
                       /\ ~ActiveIn(icbm_slots[i])
                       /\ ActiveIn(icbm_slots'[i]) /\ icbm_slots'[i].kind = "ICBM"
                       /\ \A j \in (0 .. 7) \ {i} : icbm_slots'[j] = icbm_slots[j]
                 /\ UNCHANGED << state, wave_number, frame_count, player_score,
                                 abm_slots, flier_slot, expl_slots, current_group,
                                 cities, silos >>
       /\ icbms_remaining_this_wave' < icbms_remaining_this_wave =>
            Called("spawn_icbm") /\ last'.ret = TRUE]_vars

\* C9 witness: a spawn was refused for want of a slot, with budget left
C9_SpawnRefusedTableFull ==
    /\ last.op = "spawn_icbm" /\ last.ret = FALSE
    /\ icbms_remaining_this_wave > 0
    /\ \A i \in 0 .. 7 : ActiveIn(icbm_slots[i])

\* ------------------------------------------------------------------------
\* Properties of DefenseManager.fire under SpecDefense
\* ------------------------------------------------------------------------
\* C10: fire(silo_index, target, active_abms) returns no ABM and leaves the
\* silos as they are when active_abms >= 8, when silo_index is outside 0..2,
\* or when that silo is empty or destroyed; otherwise it returns an ABM
\* tagged with silo_index, takes exactly 1 from that silo's ammo and leaves
\* the other silos unchanged.
C10_DefenseFire ==
    [][Called("defences.fire") =>
         LET silo_index == last'.args[1]
             active_abms == last'.args[4]
         IN  IF \/ active_abms >= 8
                \/ silo_index \notin 0 .. 2
                \/ silos[silo_index].abm_count <= 0
                \/ silos[silo_index].is_destroyed
             THEN last'.ret = None /\ silos' = silos
             ELSE /\ last'.ret # None
                  /\ last'.ret.kind = "ABM" /\ last'.ret.silo_index = silo_index
                  /\ silos'[silo_index].abm_count = silos[silo_index].abm_count - 1
                  /\ silos'[silo_index].is_destroyed = silos[silo_index].is_destroyed
                  /\ \A j \in (0 .. 2) \ {silo_index} : silos'[j] = silos[j]]_vars

\* C10 witness: silo 2 has fired its last interceptor beside a destroyed
\* silo 0
C10_LastInterceptorFired ==
    /\ last.op = "defences.fire" /\ last.ret # None /\ last.args[1] = 2
    /\ silos[2].abm_count = 0 /\ silos[0].is_destroyed

\* ------------------------------------------------------------------------
\* Properties of firing
\* ------------------------------------------------------------------------
\* the step is a call of fire_from_silo or of fire_nearest
CalledFire == Called("fire_from_silo") \/ Called("fire_nearest")

\* C11 as the claim states it: fire_from_silo and fire_nearest called in
\* ATTRACT, WAVE_END or GAME_OVER return False, spend no ammo and admit no ABM.
C11_NoFireOutsideRunning ==
    [][(CalledFire /\ state \in {"ATTRACT", "WAVE_END", "GAME_OVER"}) =>
         (last'.ret = FALSE /\ silos' = silos /\ abm_slots' = abm_slots)]_vars

ActiveAbms(abms) == Cardinality({ i \in 0 .. 7 : abms[i] # None /\ abms[i].is_active })

\* C12: under the Game operations a fire_from_silo or fire_nearest call
\* takes 0 or 1 interceptors from the silos; it returns True exactly when it
\* took 1, and then the number of active ABMs rises by exactly 1; when it
\* returns False the ABM table is unchanged.
C12_FireAdmitsWhatItDeducts ==
    [][CalledFire =>
         LET deducted == AmmoLeft(silos) - AmmoLeft(silos')
         IN  /\ deducted \in {0, 1}
             /\ last'.ret = (deducted = 1)
             /\ last'.ret = TRUE => ActiveAbms(abm_slots') = ActiveAbms(abm_slots) + 1
             /\ last'.ret = FALSE => abm_slots' = abm_slots]_vars

\* C12 witness: the eighth ABM has been admitted, three of them fired one
\* from each silo
C12_EightAbmsFromThreeSilos ==
    /\ last.op = "fire_from_silo" /\ last.ret = TRUE
    /\ ActiveAbms(abm_slots) = 8
    /\ \A k \in 0 .. 2 : \E i \in 0 .. 7 : abm_slots[i].silo_index = k
    /\ AmmoLeft(silos) = 22

\* ------------------------------------------------------------------------
\* Properties of the slot tables
\* ------------------------------------------------------------------------
\* C13: no more than 8 ABMs are ever active; add_abm returns False and
\* leaves the table unchanged exactly when every one of the 8 slots holds an
\* active ABM; otherwise, one inactive ABM being enough, it returns True and
\* puts the ABM into the lowest slot that held no active one, leaving the
\* other slots alone.
C13_AddAbm ==
    [][/\ ActiveAbms(abm_slots') <= 8
       /\ Called("missiles.add_abm") =>
            IF \A i \in 0 .. 7 : abm_slots[i] # None /\ abm_slots[i].is_active
            THEN last'.ret = FALSE /\ abm_slots' = abm_slots
            ELSE /\ last'.ret = TRUE
                 /\ \E i \in 0 .. 7 :
                       /\ abm_slots[i] = None \/ ~abm_slots[i].is_active
                       /\ \A j \in 0 .. (i - 1) :
                             abm_slots[j] # None /\ abm_slots[j].is_active
                       /\ abm_slots'[i] = last'.args[1]
                       /\ \A j \in (0 .. 7) \ {i} : abm_slots'[j] = abm_slots[j]
                 /\ ActiveAbms(abm_slots') = ActiveAbms(abm_slots) + 1]_vars

\* C13 witness: a full table has refused a ninth ABM
C13_NinthAbmRefused ==
    /\ last.op = "missiles.add_abm" /\ last.ret = FALSE
    /\ ActiveAbms(abm_slots) = 8

ActiveEntity(t, i) == t[i] # None /\ t[i].is_active
ActiveSmartBombs(t) ==
    Cardinality({ i \in 0 .. 7 : ActiveEntity(t, i) /\ t[i].kind = "SmartBomb" })

\* C14: no more than 8 ICBM-class entities are ever active, no more than 2
\* of them smart bombs; add_icbm returns False and leaves the table
\* unchanged exactly when all 8 slots hold active entities or the entity is
\* a smart bomb and 2 smart bombs are active, and otherwise puts it into a
\* slot without an active entity; set_flier returns False, changing nothing,
\* exactly when the flier slot holds an active flier, and otherwise stores
\* the flier.
C14_AddIcbmAndSetFlier ==
    [][/\ Cardinality({ i \in 0 .. 7 : ActiveEntity(icbm_slots', i) }) <= 8
       /\ ActiveSmartBombs(icbm_slots') <= 2
       /\ Called("missiles.add_icbm") =>
            LET e == last'.args[1]
            IN  IF \/ \A i \in 0 .. 7 : ActiveEntity(icbm_slots, i)
                   \/ e.kind = "SmartBomb" /\ ActiveSmartBombs(icbm_slots) >= 2
                THEN last'.ret = FALSE /\ icbm_slots' = icbm_slots
                ELSE /\ last'.ret = TRUE
                     /\ \E i \in 0 .. 7 :
                           /\ ~ActiveEntity(icbm_slots, i)
                           /\ icbm_slots'[i] = e
                           /\ \A j \in (0 .. 7) \ {i} : icbm_slots'[j] = icbm_slots[j]
       /\ Called("missiles.set_flier") =>
            IF flier_slot # None /\ flier_slot.is_active
            THEN last'.ret = FALSE /\ flier_slot' = flier_slot
            ELSE last'.ret = TRUE /\ flier_slot' = last'.args[1]]_vars

\* C14 witness: a third smart bomb was refused with slots to spare, beside
\* an inactive flier that has been replaced
C14_ThirdSmartBombRefused ==
    /\ last.op = "missiles.add_icbm" /\ last.ret = FALSE
    /\ last.args[1].kind = "SmartBomb"
    /\ ActiveSmartBombs(icbm_slots) = 2
    /\ \E i \in 0 .. 7 : icbm_slots[i] = None
    /\ \E i \in 0 .. 7 : icbm_slots[i] # None /\ ~icbm_slots[i].is_active
                         /\ icbm_slots[i].kind = "SmartBomb"

CalledDestroy == Called("cities.destroy_city") \/ Called("cities.destroy_city_at")
DestroyedCities(cm) == Cardinality({ i \in 0 .. 5 : cm.cities[i] })

\* C15: from one CityManager.start_wave to the next no more than 3 calls of
\* destroy_city / destroy_city_at succeed: after 3 successes every attempt
\* returns False and changes nothing.  An attempt also returns False and
\* changes nothing when the index is outside 0..5, when the city is already
\* destroyed, or when no standing city lies within the radius of the point;
\* an attempt that succeeds destroys exactly one city.
C15_ThreeCitiesPerWave ==
    [][CalledDestroy =>
         LET a == last'.args
             refused ==
                \/ Wins >= 3
                \/ /\ last'.op = "cities.destroy_city"
                   /\ (a[1] < 0 \/ a[1] > 5 \/ cities.cities[a[1]])
                \/ /\ last'.op = "cities.destroy_city_at"
                   /\ ~\E i \in 0 .. 5 :
                         /\ ~cities.cities[i]
                         /\ Abs(CITY_POSITIONS[i + 1][1] - a[1]) <= 10
                         /\ Abs(CITY_POSITIONS[i + 1][2] - a[2]) <= 10
         IN  /\ Wins' <= 3
             /\ refused => (last'.ret = FALSE /\ cities' = cities)
             /\ last'.ret = FALSE => cities' = cities
             /\ last'.ret = TRUE =>
                   DestroyedCities(cities') = DestroyedCities(cities) + 1]_vars

\* C15 witness: a fourth destruction of the wave was refused for a standing
\* city, in range, after a crater had been replaced
C15_FourthCityRefused ==
    /\ last.op = "cities.destroy_city" /\ last.ret = FALSE
    /\ last.args[1] \in 0 .. 5 /\ ~cities.cities[last.args[1]]
    /\ last.wins = 3
    /\ DestroyedCities(cities) = 2

\* C17: replace_random_crater returns True exactly when the bank holds a
\* bonus city and some city is destroyed; it then restores one destroyed
\* city, no other, and takes one city from the bank, so that standing plus
\* banked cities stay the same; otherwise it returns False and changes
\* nothing.
C17_ReplaceRandomCrater ==
    [][Called("cities.replace_random_crater") =>
         IF cities.bonus_cities > 0 /\ \E i \in 0 .. 5 : cities.cities[i]
         THEN /\ last'.ret = TRUE
              /\ \E i \in 0 .. 5 :
                    /\ cities.cities[i]
                    /\ cities'.cities = [cities.cities EXCEPT ![i] = FALSE]
              /\ cities'.bonus_cities = cities.bonus_cities - 1
              /\ (6 - DestroyedCities(cities')) + cities'.bonus_cities
                   = (6 - DestroyedCities(cities)) + cities.bonus_cities
              /\ cities'.cities_destroyed_this_wave = cities.cities_destroyed_this_wave
              /\ cities'.last_bonus_score = cities.last_bonus_score
              /\ cities'.bonus_threshold = cities.bonus_threshold
         ELSE last'.ret = FALSE /\ cities' = cities]_vars

\* C17 witness: one of two banked cities replaced a crater other than the
\* first of three
C17_CraterReplaced ==
    /\ last.op = "cities.replace_random_crater" /\ last.ret = TRUE
    /\ cities.bonus_cities = 1
    /\ DestroyedCities(cities) = 2 /\ cities.cities[0]

\* the other fields of the CityManager stay as they are
BonusOnly ==
    /\ cities'.cities = cities.cities
    /\ cities'.cities_destroyed_this_wave = cities.cities_destroyed_this_wave
    /\ cities'.bonus_threshold = cities.bonus_threshold

\* C16 as the claim states it: with a threshold T > 0, check_bonus(score)
\* awards floor((score - last) / T) bonus cities, whatever the score.
C16_AwardsFloorOfDifference ==
    [][(Called("cities.check_bonus") /\ cities.bonus_threshold > 0) =>
         last'.ret = (last'.args[1] - cities.last_bonus_score) \div cities.bonus_threshold]_vars

\* C16: with a threshold T > 0 and a score not below last, the score level
\* of the previous award, check_bonus(score) awards floor((score - last) / T)
\* bonus cities; with a score below last it awards none.  last advances by
\* T per award and bonus_cities becomes (old + awarded) mod 256, nothing
\* else changes.  A second call with the same score awards 0, and in a new
\* manager with threshold 1 a score of 256 leaves bonus_cities at 0.
C16_CheckBonus ==
    [][(Called("cities.check_bonus") /\ cities.bonus_threshold > 0) =>
         LET T == cities.bonus_threshold
             score == last'.args[1]
             lb == cities.last_bonus_score
             awarded == IF score >= lb THEN (score - lb) \div T ELSE 0
         IN  /\ last'.ret = awarded
             /\ cities'.last_bonus_score = lb + awarded * T
             /\ cities'.bonus_cities = (cities.bonus_cities + awarded) % 256
             /\ BonusOnly
             /\ (last.op = "cities.check_bonus" /\ last.args[1] = score) => awarded = 0
             /\ (T = 1 /\ lb = 0 /\ cities.bonus_cities = 0 /\ score = 256)
                   => cities'.bonus_cities = 0]_vars

\* C16 witness: 256 awards in one call wrapped the bank of a manager with
\* threshold 1 to 0
C16_BankWrapped ==
    /\ last.op = "cities.check_bonus" /\ last.args[1] = 256 /\ last.ret = 256
    /\ cities.bonus_threshold = 1
    /\ cities.bonus_cities = 0 /\ cities.last_bonus_score = 256

CeilDiv(a, b) == (a + b - 1) \div b

\* the stage an explosion e is in after n calls of update()
StageAfter(e, n) ==
    LET expanding == CeilDiv(e.max_radius, e.expand_rate)
        holding == IF e.hold_frames > 1 THEN e.hold_frames ELSE 1
        contracting == CeilDiv(e.max_radius, e.contract_rate)
    IN  IF n < expanding THEN "EXPANDING"
        ELSE IF n < expanding + holding THEN "HOLDING"
        ELSE IF n < expanding + holding + contracting THEN "CONTRACTING"
        ELSE "DONE"

\* C18: an explosion with max_radius, expand_rate and contract_rate of at
\* least 1 is EXPANDING for its first ceil(max_radius / expand_rate) calls of
\* update(), HOLDING for the next max(hold_frames, 1), CONTRACTING for the
\* next ceil(max_radius / contract_rate), and DONE from then on, never
\* skipping a stage or going back; it is active exactly until it is DONE, and
\* update() on a DONE explosion changes nothing.
C18_ExplosionLifecycle ==
    [][/\ LET e == expl_slots'[0]
              n == last'.steps
          IN  /\ e.state = StageAfter(e, n)
              /\ e.is_active = (e.state # "DONE")
       /\ (Called("explosion.update") /\ expl_slots[0].state = "DONE")
             => expl_slots' = expl_slots]_vars

\* C18 witness: the explosion of the lifecycle test is DONE after 13 calls,
\* and was not after 12
C18_DoneAfterThirteen ==
    /\ last.op = "explosion.update" /\ last.steps = 13
    /\ LET e == expl_slots[0]
       IN  /\ << e.max_radius, e.expand_rate, e.hold_frames, e.contract_rate >> = << 5, 1, 3, 1 >>
           /\ e.state = "DONE" /\ ~e.is_active
           /\ StageAfter(e, 12) = "CONTRACTING"

ActiveExplosion(sl, i) == sl[i] # None /\ sl[i].is_active
InGroup(i, g) == i \div 4 = g

\* C19: a call of ExplosionManager.update steps the active explosions in
\* the 4 slots of current_group, removing those that finish and returning
\* the ones it stepped, empties the group's slots that hold a finished
\* explosion, leaves every slot of the other groups as it is, and advances
\* current_group to (current_group + 1) mod 5.  The groups are processed in
\* the order 0, 1, 2, 3, 4, 0, ..., so that in any 5 consecutive calls the
\* group of every slot is processed exactly once.
C19_OneGroupPerUpdate ==
    [][Called("explosions.update") =>
         LET g == current_group
             h == last'.steps
             stepped == { i \in 0 .. 19 : InGroup(i, g) /\ ActiveExplosion(expl_slots, i) }
         IN  /\ \A i \in 0 .. 19 :
                   expl_slots'[i] =
                      IF i \in stepped
                      THEN LET st == Explosion_update(expl_slots[i])
                           IN  IF st.is_active THEN st ELSE None
                      ELSE IF InGroup(i, g) THEN None
                      ELSE expl_slots[i]
             /\ Len(last'.ret) = Cardinality(stepped)
             /\ { last'.ret[k] : k \in 1 .. Len(last'.ret) }
                   = { Explosion_update(expl_slots[i]) : i \in stepped }
             /\ current_group' = (g + 1) % 5
             /\ h[Len(h)] = g
             /\ \A k \in 1 .. Len(h) : h[k] = (k - 1) % 5
             /\ \A a \in 1 .. Len(h) - 4 : \A i \in 0 .. 19 :
                   Cardinality({ k \in a .. a + 4 : InGroup(i, h[k]) }) = 1]_vars

\* C19 witness: the sixth call processed group 0 again and gave the first
\* explosion its second step, while one of group 1 has had one step and one
\* of group 4 waits for its first
C19_SecondRound ==
    /\ last.op = "explosions.update" /\ last.steps = << 0, 1, 2, 3, 4, 0 >>
    /\ current_group = 1
    /\ ActiveExplosion(expl_slots, 0) /\ expl_slots[0].state = "CONTRACTING"
    /\ ActiveExplosion(expl_slots, 4) /\ expl_slots[4].state = "HOLDING"
    /\ ActiveExplosion(expl_slots, 19) /\ expl_slots[19].state = "EXPANDING"

\* C20: ExplosionManager.add stores the explosion in the lowest slot that
\* is empty or holds a finished explosion, with its group_id set to the slot
\* index div 4, changes no other slot and returns True; when all 20 slots
\* hold active explosions it returns False and changes nothing.  The
\* group_id of every stored explosion is its slot index div 4.
C20_AddExplosion ==
    [][/\ \A i \in 0 .. 19 :
             expl_slots'[i] # None => expl_slots'[i].group_id = i \div 4
       /\ Called("explosions.add") =>
             LET e == last'.args[1]
             IN  IF \A i \in 0 .. 19 : ActiveExplosion(expl_slots, i)
                 THEN last'.ret = FALSE /\ expl_slots' = expl_slots
                 ELSE /\ last'.ret = TRUE
                      /\ \E i \in 0 .. 19 :
                            /\ ~ActiveExplosion(expl_slots, i)
                            /\ \A j \in 0 .. i - 1 : ActiveExplosion(expl_slots, j)
                            /\ expl_slots'[i] = [e EXCEPT !.group_id = i \div 4]
                            /\ \A j \in (0 .. 19) \ {i} : expl_slots'[j] = expl_slots[j]]_vars

\* C20 witness: a 21st explosion was refused by a table whose slot 5 had
\* been filled a second time
C20_TwentyFirstRefused ==
    /\ last.op = "explosions.add" /\ last.ret = FALSE
    /\ \A i \in 0 .. 19 : ActiveExplosion(expl_slots, i)
    /\ expl_slots[4].state = "HOLDING" /\ expl_slots[6].state = "HOLDING"
    /\ expl_slots[5].state = "EXPANDING"

\* the flier of this tick after step 1
MovedFlier == ClearSlot(update_all_flier(flier_slot))

\* the entities of the ICBM table that the tick deactivated after their move
ShotDown == { i \in IcbmIdx : ActiveIn(MovedIcbms[i]) /\ ~ActiveIn(icbm_slots'[i]) }
FlierShotDown == ActiveIn(MovedFlier) /\ ~ActiveIn(flier_slot')

\* C21: collides_with(x, y) is False for every point with y < 33, wherever
\* the explosion is and whatever its radius; an ICBM-class entity or a flier
\* that is at y < 33 after its move is left as it is by the rest of the
\* tick, and a tick that does not end the wave scores for the entities it
\* deactivated only.
C21_NoCollisionAboveTheLine ==
    [][/\ \A j \in ExplIdx :
             expl_slots'[j] # None =>
                \A x \in { expl_slots'[j].center_x - 1, expl_slots'[j].center_x,
                           expl_slots'[j].center_x + 13 } :
                   \A y \in 0 .. 32 : ~collides_with(expl_slots'[j], x, y)
       /\ RunningTick =>
             /\ \A i \in IcbmIdx :
                   (ActiveIn(MovedIcbms[i]) /\ current_y(MovedIcbms[i]) < 33)
                      => icbm_slots'[i] = MovedIcbms[i]
             /\ (ActiveIn(MovedFlier) /\ MovedFlier.altitude < 33)
                   => flier_slot' = MovedFlier
             /\ state' # "WAVE_END" =>
                   player_score' = player_score + SumPoints(ShotDown)
                                     + (IF FlierShotDown THEN 100 ELSE 0)]_vars

\* the active explosions of the group that the last tick processed which
\* hold the point (x, y)
HeldByProcessed(x, y) ==
    { j \in ExplIdx : /\ Occupied(expl_slots[j])
                      /\ j \div 4 = (current_group + 4) % 5
                      /\ InsideOctagon(expl_slots[j], x, y) }

\* C21 witness: a tick has processed an explosion that holds a smart bomb
\* and the flier, both at y < 33, and both fly on, nothing scored
C21_FlyingOnAboveTheLine ==
    /\ last.op = "update" /\ last.from = "RUNNING" /\ player_score = 0
    /\ \E i \in IcbmIdx :
          /\ ActiveIn(icbm_slots[i]) /\ icbm_slots[i].kind = "SmartBomb"
          /\ current_y(icbm_slots[i]) < 33
          /\ HeldByProcessed(current_x(icbm_slots[i]), current_y(icbm_slots[i])) # {}
    /\ ActiveIn(flier_slot) /\ flier_slot.altitude < 33
    /\ HeldByProcessed(flier_slot.current_x, flier_slot.altitude) # {}

\* an active explosion of the group that this tick processes holds (x, y)
\* once it is stepped
ProcessedHolds(x, y) ==
    \E j \in 0 .. 19 :
       /\ j \div 4 = current_group
       /\ expl_slots[j] # None /\ expl_slots[j].is_active
       /\ InsideOctagon(Explosion_update(expl_slots[j]), x, y)

\* C22: in a RUNNING tick an active ICBM-class entity or flier that no
\* explosion of the group processed in the tick holds, whatever explosions
\* of other groups hold it, is left as its move left it, and a tick that
\* does not end the wave scores for the entities it deactivated only.
C22_OnlyProcessedGroupTested ==
    [][RunningTick =>
         /\ \A i \in IcbmIdx :
               ( /\ ActiveIn(MovedIcbms[i])
                 /\ ~ProcessedHolds(current_x(MovedIcbms[i]), current_y(MovedIcbms[i])) )
                  => icbm_slots'[i] = MovedIcbms[i]
         /\ (ActiveIn(MovedFlier) /\ ~ProcessedHolds(MovedFlier.current_x, MovedFlier.altitude))
               => flier_slot' = MovedFlier
         /\ state' # "WAVE_END" =>
               player_score' = player_score + SumPoints(ShotDown)
                                 + (IF FlierShotDown THEN 100 ELSE 0)]_vars

\* the active explosions of the groups that the last tick did not process
\* which hold the point (x, y)
HeldByOthers(x, y) ==
    { j \in ExplIdx : /\ Occupied(expl_slots[j]) /\ y >= 33
                      /\ j \div 4 # (current_group + 4) % 5
                      /\ InsideOctagon(expl_slots[j], x, y) }

\* C22 witness: a tick that processed another group has passed over a smart
\* bomb and the flier, both within an active explosion of group 0 at
\* y >= 33, and nothing is scored
C22_PassedOverInOtherGroup ==
    /\ last.op = "update" /\ last.from = "RUNNING" /\ player_score = 0
    /\ \E i \in IcbmIdx :
          /\ ActiveIn(icbm_slots[i])
          /\ HeldByOthers(current_x(icbm_slots[i]), current_y(icbm_slots[i])) # {}
    /\ ActiveIn(flier_slot)
    /\ HeldByOthers(flier_slot.current_x, flier_slot.altitude) # {}

\* the ABM a one tick on: moved by its increments, and gone from the table
\* if its own arrival test fires
AbmAfterOwnMove(a) ==
    LET nx == a.current_x_fp + a.x_increment
        ny == a.current_y_fp + a.y_increment
        cx == nx \div 256
        cy == ny \div 256
        arrived == \/ (a.x_increment > 0 /\ cx >= a.target_x)
                   \/ (a.x_increment < 0 /\ cx <= a.target_x)
                   \/ (a.y_increment > 0 /\ cy >= a.target_y)
                   \/ (a.y_increment < 0 /\ cy <= a.target_y)
    IN  IF arrived THEN None
        ELSE [a EXCEPT !.current_x_fp = nx, !.current_y_fp = ny]

\* C23: no explosion deactivates or removes an ABM.  In a RUNNING tick an
\* active ABM moves by its increments and leaves the table exactly when its
\* own arrival test fires, whatever explosions hold it; start_wave empties
\* the table; no other call changes an active ABM.
C23_ExplosionsSpareAbms ==
    [][\A i \in AbmIdx :
          (abm_slots[i] # None /\ abm_slots[i].is_active) =>
             IF RunningTick THEN abm_slots'[i] = AbmAfterOwnMove(abm_slots[i])
             ELSE IF Called("start_wave") THEN abm_slots'[i] = None
             ELSE abm_slots'[i] = abm_slots[i]]_vars

\* C23 witness: an ABM flies on through an explosion that the last tick
\* processed, at y >= 33
C23_AbmInsideProcessedExplosion ==
    /\ last.op = "update" /\ last.from = "RUNNING"
    /\ \E i \in AbmIdx :
          /\ ActiveIn(abm_slots[i])
          /\ current_y(abm_slots[i]) >= 33
          /\ HeldByProcessed(current_x(abm_slots[i]), current_y(abm_slots[i])) # {}

\* ---- MIRV ----

\* the six preconditions of a split, spelled out
MirvAllowed(icbm, active_icbm_count, remaining_wave_icbms, any_above_high) ==
    /\ ~icbm.has_mirved
    /\ icbm.can_mirv
    /\ 128 <= current_y(icbm) /\ current_y(icbm) <= 159
    /\ ~any_above_high
    /\ active_icbm_count < 8
    /\ remaining_wave_icbms > 0

\* C24: check_mirv_conditions returns True exactly when the ICBM has not
\* mirved, can_mirv is set, its altitude is in 128 .. 159, any_above_high is
\* false, active_icbm_count < 8 and remaining_wave_icbms > 0; so it is False
\* for every ICBM that has mirved; the call changes nothing of the ICBM.
C24_CheckMirvConditions ==
    last.op = "icbm.check_mirv_conditions" =>
         /\ last.ret = MirvAllowed(last.self, last.args[1], last.args[2], last.args[3])
         /\ (last.self.has_mirved => last.ret = FALSE)
         /\ MirvParent = last.self

\* the check succeeds at the upper end of the altitude range
C24_AllowedAtUpperAltitude ==
    /\ last.op = "icbm.check_mirv_conditions"
    /\ last.ret = TRUE
    /\ current_y(MirvParent) = 159

\* the number of children of a split
MirvCount(targets, active_icbm_count, remaining_wave_icbms) ==
    Max2(0, Min2(Min2(3, 8 - active_icbm_count), Min2(remaining_wave_icbms, Len(targets))))

\* C25: a split produces min(3, 8 - active_icbm_count, remaining_wave_icbms,
\* number of targets) children (none when that is not positive); child i
\* starts at the parent's current position, is aimed at the i-th target,
\* has the parent's speed, can_mirv = false and has_mirved = false; distinct
\* targets give distinct child targets; the parent's has_mirved becomes true
\* and nothing else of the parent changes.
C25_MirvChildren ==
    last.op = "icbm.mirv" =>
         LET targets == last.args[1]
             n == MirvCount(targets, last.args[2], last.args[3])
             children == last.ret
         IN  /\ Len(children) = n
             /\ \A i \in 1 .. n :
                   /\ children[i].kind = "ICBM"
                   /\ children[i].current_x_fp = current_x(last.self) * 256
                   /\ children[i].current_y_fp = current_y(last.self) * 256
                   /\ children[i].target_x = targets[i][1]
                   /\ children[i].target_y = targets[i][2]
                   /\ children[i].speed = last.self.speed
                   /\ ~children[i].can_mirv
                   /\ ~children[i].has_mirved
                   /\ children[i].is_active
             /\ \A i, j \in 1 .. n :
                   targets[i] # targets[j] =>
                     << children[i].target_x, children[i].target_y >>
                       # << children[j].target_x, children[j].target_y >>
             /\ MirvParent = [last.self EXCEPT !.has_mirved = TRUE]

\* a split whose preconditions held, with two free slots, budget for five
\* and four targets: two children, the parent having moved before
C25_TwoChildrenForTwoFreeSlots ==
    /\ last.op = "icbm.mirv"
    /\ MirvAllowed(last.self, last.args[2], last.args[3], FALSE)
    /\ Len(last.args[1]) = 4 /\ last.args[2] = 6 /\ last.args[3] = 5
    /\ Len(last.ret) = 2
    /\ last.self.current_y_fp % 256 # 0
    /\ MirvParent.has_mirved

\* C26: a parent splits at most once: a mirv call on a parent that has
\* mirved produces no children.
C26_SecondSplitRejected ==
    last.op = "icbm.mirv" /\ last.self.has_mirved => last.ret = << >>

\* ---- trajectories ----

InactiveEntity(e) == Occupied(e) /\ ~e.is_active

\* f is e one step later: still inactive and where it was
StaysPut(e, f) ==
    /\ ~f.is_active
    /\ f.current_x_fp = e.current_x_fp
    /\ f.current_y_fp = e.current_y_fp

\* C27: once an ABM, ICBM or smart bomb is inactive (it arrived, or
\* deactivate() was called) no operation makes it active again, and
\* update() calls made on it leave its position as it was.
C27_InactiveForGood ==
    [][/\ InactiveEntity(FlightAbm) => StaysPut(FlightAbm, FlightAbm')
       /\ InactiveEntity(FlightIcbm) => StaysPut(FlightIcbm, FlightIcbm')]_vars

\* update() was called on an ABM whose arrival test had fired, while the
\* smart bomb, deactivated on its way, is inactive too
C27_UpdatedAfterArrival ==
    /\ last.op = "abm.update"
    /\ ~last.self.is_active
    /\ has_passed_target(current_x(last.self), current_y(last.self),
                         last.self.target_x, last.self.target_y,
                         last.self.x_increment, last.self.y_increment)
    /\ InactiveEntity(FlightIcbm) /\ FlightIcbm.kind = "SmartBomb"
    /\ FlightIcbm.current_y_fp > 0 /\ current_y(FlightIcbm) < FlightIcbm.target_y

\* C28: every ABM and every ICBM becomes inactive after finitely many
\* update() calls, whatever its origin, target and speed.
C28_EveryMissileArrives ==
    /\ ActiveIn(FlightAbm) ~> ~ActiveIn(FlightAbm)
    /\ (ActiveIn(FlightIcbm) /\ FlightIcbm.kind = "ICBM") ~> ~ActiveIn(FlightIcbm)

\* ---- fixed-point math ----

\* the quotient of a by b > 0, truncated toward zero
TruncDiv(a, b) == IF a >= 0 THEN a \div b ELSE -((-a) \div b)

\* max(|dx|, |dy|) + floor(3 * min(|dx|, |dy|) / 8), capped at 255
Octagonal(x1, y1, x2, y2) ==
    LET hi == Max2(Abs(x2 - x1), Abs(y2 - y1))
        lo == Min2(Abs(x2 - x1), Abs(y2 - y1))
    IN  Min2(hi + ((3 * lo) \div 8), 255)

\* C29: compute_increments returns (0, 0) when the distance is 0, and
\* otherwise (tx-sx)*speed*256 / dist and (ty-sy)*speed*256 / dist with the
\* quotient truncated toward zero, negative deltas included.
C29_IncrementsTruncate ==
    last.op = "compute_increments" =>
        LET sx == last.args[1]
            sy == last.args[2]
            tx == last.args[3]
            ty == last.args[4]
            speed == last.args[5]
            dist == Octagonal(sx, sy, tx, ty)
        IN  last.ret = IF dist = 0 THEN << 0, 0 >>
                       ELSE << TruncDiv((tx - sx) * speed * 256, dist),
                               TruncDiv((ty - sy) * speed * 256, dist) >>

\* C30: both distance_approx functions return
\* min(max(|dx|,|dy|) + floor(3*min(|dx|,|dy|)/8), 255): they agree, the
\* result never exceeds 255, it is the same with the two points swapped,
\* (0,0)-(100,100) gives 137 and (0,0)-(500,500) gives 255.
C30_DistanceApprox ==
    last.op \in {"distance_approx", "functions.distance_approx"} =>
        LET x1 == last.args[1]
            y1 == last.args[2]
            x2 == last.args[3]
            y2 == last.args[4]
        IN  /\ last.ret = Octagonal(x1, y1, x2, y2)
            /\ last.ret <= 255
            /\ distance_approx(x1, y1, x2, y2) = last.ret
            /\ functions_distance_approx(x1, y1, x2, y2) = last.ret
            /\ distance_approx(x2, y2, x1, y1) = last.ret
            /\ functions_distance_approx(x2, y2, x1, y1) = last.ret
            /\ (<< x1, y1, x2, y2 >> = << 0, 0, 100, 100 >> => last.ret = 137)
            /\ (<< x1, y1, x2, y2 >> = << 0, 0, 500, 500 >> => last.ret = 255)

\* the duplicate in utils/functions.py called on a distance beyond the cap
C30_CappedDiagonal ==
    /\ last.op = "functions.distance_approx"
    /\ << last.args[1], last.args[2], last.args[3], last.args[4] >> = << 0, 0, 500, 500 >>
    /\ last.ret = 255

\* ---- smart bomb evasion ----

\* the nearest of the centers to bomb m by distance_approx, the first of
\* those equally near
NearestCenter(m) ==
    LET list == m.nearby_explosions
        d(i) == Octagonal(current_x(m), current_y(m), list[i][1], list[i][2])
        best == CHOOSE i \in 1 .. Len(list) :
                  /\ \A j \in 1 .. Len(list) : d(i) <= d(j)
                  /\ \A j \in 1 .. (i - 1) : d(j) > d(i)
    IN  list[best]

\* on one axis: the step taken is 0 or the increment, it is 0 exactly when
\* stepping by the (non-zero) increment would bring the bomb closer to c,
\* and the distance to c does not decrease
EvadeAxis(from_fp, to_fp, inc, c) ==
    LET closer == Abs(c - from_fixed(from_fp + inc)) < Abs(c - from_fixed(from_fp))
    IN  /\ to_fp - from_fp \in {0, inc}
        /\ inc # 0 => (to_fp = from_fp <=> closer)
        /\ Abs(c - from_fixed(to_fp)) >= Abs(c - from_fixed(from_fp))

Evading(m) == m.is_active /\ m.evasion_active /\ Len(m.nearby_explosions) > 0

EvadeAxisByDirection(from_fp, to_fp, inc, c) ==
    LET cur == from_fixed(from_fp)
        closer == Abs(c - from_fixed(from_fp + inc)) < Abs(c - cur)
        toward == (inc > 0 /\ c > cur) \/ (inc < 0 /\ c < cur)
    IN  /\ to_fp - from_fp \in {0, inc}
        /\ inc # 0 => (to_fp = from_fp <=> toward)
        /\ closer => to_fp = from_fp
        /\ Abs(c - from_fixed(to_fp)) >= Abs(c - cur)

Eligible(sil) == { i \in SiloIdx : ~sil[i].is_destroyed /\ sil[i].abm_count > 0 }

\* the eligible silo nearest to target_x by |silo_x - target_x|, the lowest
\* index among equally near ones
NearestEligible(sil, target_x) ==
    CHOOSE i \in Eligible(sil) :
        \A j \in Eligible(sil) :
            \/ Abs(SILO_POSITIONS[i + 1][1] - target_x) < Abs(SILO_POSITIONS[j + 1][1] - target_x)
            \/ /\ Abs(SILO_POSITIONS[i + 1][1] - target_x) = Abs(SILO_POSITIONS[j + 1][1] - target_x)
               /\ i <= j

\* C32: fire_nearest returns no ABM and changes no ammo when 8 ABMs are
\* active or no silo can fire; otherwise it fires from the silo with the
\* smallest |silo_x - target_x| among those not destroyed and with ammo (the
\* lowest index on ties), taking 1 from that silo's ammo only.
C32_FireNearest ==
    last.op = "defences.fire_nearest" =>
        LET before == last.self
            target_x == last.args[1]
        IN  IF last.args[3] >= 8 \/ Eligible(before) = {}
            THEN last.ret = None /\ silos = before
            ELSE LET i == NearestEligible(before, target_x)
                 IN  /\ last.ret.kind = "ABM"
                     /\ last.ret.silo_index = i
                     /\ last.ret.is_active
                     /\ last.ret.target_x = target_x /\ last.ret.target_y = last.args[2]
                     /\ last.ret.current_x_fp = SILO_POSITIONS[i + 1][1] * 256
                     /\ silos = [before EXCEPT ![i].abm_count = @ - 1]

\* a target midway between silos 1 and 2, all three able to fire: silo 1
\* fired
C32_TieGoesToLowerIndex ==
    /\ last.op = "defences.fire_nearest"
    /\ last.args[1] = 176 /\ last.args[3] = 0
    /\ Eligible(last.self) = SiloIdx
    /\ last.ret.kind = "ABM" /\ last.ret.silo_index = 1
    /\ silos[1].abm_count = last.self[1].abm_count - 1

\* ---- tournament mode ----

\* C33: in tournament mode (bonus_threshold 0) no bonus city is ever
\* awarded: through ticks, wave ends and check_bonus calls with any score,
\* check_bonus returns 0 and bonus_cities, the score level of the last award
\* and the threshold stay as they were.
C33_TournamentAwardsNothing ==
    /\ cities.bonus_cities = 0
    /\ cities.last_bonus_score = 0
    /\ cities.bonus_threshold = 0
    /\ last.op = "cities.check_bonus" => last.ret = 0

\* after two wave ends, with their bonuses in the score, check_bonus was
\* called with twice the default threshold
C33_NothingForTwentyThousand ==
    /\ last.op = "cities.check_bonus" /\ last.args[1] = 20000 /\ last.ret = 0
    /\ state = "WAVE_END" /\ wave_number = app_start_wave + 2
    /\ player_score >= 1500

\* ---- clean-up of finished explosions ----

\* the explosion of slot i is on its last contracting step: one more
\* update() takes it to DONE
AboutToFinish(e) ==
    /\ Occupied(e) /\ e.is_active
    /\ e.state = "CONTRACTING" /\ e.current_radius - e.contract_rate <= 0

FinishedExplosion(e) == Occupied(e) /\ ~e.is_active /\ e.state = "DONE"

\* the original statement of C34: an explosion that reaches DONE in a pass
\* over its group is still in its slot after that pass.
C34_DoneStaysUntilNextPass ==
    [][Called("explosions.update") =>
         \A i \in 0 .. 19 :
             (i \div 4 = current_group /\ AboutToFinish(expl_slots[i]))
                 => FinishedExplosion(expl_slots'[i])]_vars

\* C34: an explosion that reaches DONE in the manager's pass over its
\* group is cleared from its slot in that same pass; one that reached DONE
\* outside a pass (its own update() was called) stays in its slot through
\* the passes over the other groups and is cleared by the next pass over its
\* own group; so after a pass no slot of the processed group holds a
\* finished explosion.
C34_DoneClearedByPassOverGroup ==
    [][Called("explosions.update") =>
         \A i \in 0 .. 19 :
             IF i \div 4 = current_group
             THEN /\ AboutToFinish(expl_slots[i]) => expl_slots'[i] = None
                  /\ FinishedExplosion(expl_slots[i]) => expl_slots'[i] = None
                  /\ Occupied(expl_slots'[i]) => expl_slots'[i].is_active
             ELSE expl_slots'[i] = expl_slots[i]]_vars

\* a pass over group 1 has just taken the explosion of slot 5 to DONE and
\* emptied the slot, its neighbour of slot 4 going on
C34_ClearedInSamePass ==
    /\ last.op = "explosions.update"
    /\ last.steps[Len(last.steps)] = 1
    /\ Len(last.ret) = 2 /\ last.ret[2].state = "DONE"
    /\ expl_slots[5] = None
    /\ ActiveIn(expl_slots[4])

\* ---- cities standing ----

StandingCities == {i \in 0 .. 5 : ~cities.cities[i]}

\* C35: through start_wave, update, fire_from_silo, fire_nearest and
\* spawn_icbm, with explosions injected, at least 3 of the 6 cities stand in
\* every state, all_destroyed is never true and update() never returns
\* GAME_OVER.
C35_ThreeCitiesAlwaysStand ==
    /\ Cardinality(StandingCities) >= 3
    /\ cities.cities_destroyed_this_wave = 6 - Cardinality(StandingCities)
    /\ state # "GAME_OVER"
    /\ last.op = "update" => last.ret # "GAME_OVER"

\* four ICBMs were shot down next to cities 0 to 3 in one tick: three
\* cities fell and city 3 stands, the ICBM shot down next to it still in
\* its slot
C35_FourthCitySpared ==
    /\ last.op = "update" /\ state = "RUNNING"
    /\ StandingCities = {3, 4, 5}
    /\ \E i \in 0 .. 7 :
          /\ icbm_slots[i] # None /\ ~icbm_slots[i].is_active
          /\ icbm_slots[i].target_x = 160

\* ---- explosions through the Game operations ----

WavesEnded == wave_number - app_start_wave

\* C36: through start_wave, update, fire_from_silo, fire_nearest and
\* spawn_icbm alone no explosion is ever stored (an ABM that reaches its
\* target detonates nothing), so no ICBM is shot down, no city falls, and
\* the score is the sum of the wave-end bonuses only: 0 before the first
\* wave end and between 600 and 750 per ended wave.
C36_NoExplosionThroughGame ==
    /\ \A i \in 0 .. MAX_EXPLOSION_SLOTS - 1 : expl_slots[i] = None
    /\ \A i \in 0 .. MAX_ICBM_SLOTS - 1 :
          icbm_slots[i] # None => icbm_slots[i].is_active
    /\ \A i \in 0 .. 5 : ~cities.cities[i]
    /\ player_score >= WavesEnded * 6 * POINTS_PER_SURVIVING_CITY
    /\ player_score <= WavesEnded * (6 * POINTS_PER_SURVIVING_CITY
                                     + 30 * POINTS_PER_REMAINING_ABM)

\* a wave ended after an ABM of silo 0 had reached its target and left its
\* slot: nothing exploded and the score is the bonus of that wave
C36_AbmArrivedWithoutBlast ==
    /\ state = "WAVE_END" /\ WavesEnded = 1
    /\ silos[0].abm_count < SILO_CAPACITY
    /\ \A i \in 0 .. MAX_ABM_SLOTS - 1 : abm_slots[i] = None
    /\ \A i \in 0 .. MAX_EXPLOSION_SLOTS - 1 : expl_slots[i] = None
    /\ player_score = 6 * POINTS_PER_SURVIVING_CITY
                      + total_abm_count(silos) * POINTS_PER_REMAINING_ABM

\* ---- the end of a drained wave ----

\* the budget is spent and the harness has made all of its additions: no
\* ICBM, ABM or explosion is added from here on
Drained ==
    /\ state = "RUNNING"
    /\ icbms_remaining_this_wave = 0
    /\ calls = MaxCalls

\* C37: a RUNNING game with budget 0, whose ICBMs were spawned by
\* spawn_icbm toward targets other than their entry points, whose
\* explosions have positive rates, and to which nothing more is added,
\* reaches WAVE_END under repeated update() calls.
C37_DrainedWaveEnds == Drained ~> (state = "WAVE_END")

\* the wave was ended by an update() well after the last addition: an ICBM
\* was shot down over a city on the way and the slow explosion ran its
\* course
C37_EndedAfterDrain ==
    /\ state = "WAVE_END" /\ last.op = "update" /\ last.from = "RUNNING"
    /\ calls = MaxCalls
    /\ frame_count > MaxIdleFrames + 5
    /\ cities.cities_destroyed_this_wave >= 1

\* ---- the explosion scheduler and the frame counter ----

\* C38: through the Game operations current_group equals frame_count mod 5
\* in every state: start_wave resets both and each RUNNING tick advances
\* both, so the n-th tick of a wave has processed group (n-1) mod 5.
C38_GroupFollowsFrameCount ==
    /\ current_group = frame_count % EXPLOSION_GROUPS
    /\ (last.op = "update" /\ last.from = "RUNNING") =>
          (current_group + EXPLOSION_GROUPS - 1) % EXPLOSION_GROUPS
             = (frame_count - 1) % EXPLOSION_GROUPS

\* the seventh tick of a wave: the scheduler has gone round once and has
\* just processed group 1
C38_SeventhTick ==
    /\ last.op = "update" /\ last.from = "RUNNING"
    /\ frame_count = 7
    /\ current_group = 2

\* ---- the radius of an explosion ----

\* C39: an explosion whose max_radius, expand_rate and contract_rate are
\* not negative has 0 <= current_radius <= max_radius after any number of
\* update() calls; it is inactive exactly when its state is DONE, and then
\* its radius is 0.
C39_RadiusWithinBounds ==
    expl_slots[0] # None =>
        LET e == expl_slots[0]
        IN  /\ 0 <= e.current_radius
            /\ e.current_radius <= e.max_radius
            /\ e.is_active = (e.state # "DONE")
            /\ e.state = "DONE" => e.current_radius = 0

\* the explosion of radius 5 and rates 3 is DONE at its fifth update():
\* both of its last steps, 3 + 3 up and 2 - 3 down, were clamped
C39_ClampedBothWays ==
    /\ last.op = "explosion.update" /\ last.steps = 5
    /\ LET e == expl_slots[0]
       IN  /\ << e.max_radius, e.expand_rate, e.hold_frames, e.contract_rate >>
                 = << 5, 3, 0, 3 >>
           /\ e.state = "DONE" /\ ~e.is_active /\ e.current_radius = 0

\* ---- the collision region and the drawn shape ----

\* twice the signed area of the triangle a, b, (px, py)
Cross(a, b, px, py) ==
    (b[1] - a[1]) * (py - a[2]) - (b[2] - a[2]) * (px - a[1])

\* (px, py) lies inside or on the convex polygon whose vertices, in order,
\* are pts: on one side of every edge, and within the extent of the vertices
InsideOrOn(pts, px, py) ==
    LET n == Len(pts)
        c == [i \in 1 .. n |-> Cross(pts[i], pts[(i % n) + 1], px, py)]
    IN  /\ \/ \A i \in 1 .. n : c[i] >= 0
           \/ \A i \in 1 .. n : c[i] <= 0
        /\ \E i \in 1 .. n : pts[i][1] <= px
        /\ \E i \in 1 .. n : pts[i][1] >= px
        /\ \E i \in 1 .. n : pts[i][2] <= py
        /\ \E i \in 1 .. n : pts[i][2] >= py

\* C40: point_in_octagon accepts a point exactly when it lies inside or on
\* the polygon whose vertices octagon_points returns for the same center
\* and radius.
C40_CollisionRegionIsDrawnShape ==
    last.op = "point_in_octagon" =>
        last.ret = InsideOrOn(octagon_points(last.args[3], last.args[4], last.args[5]),
                              last.args[1], last.args[2])
====
